---- MODULE Spec2Model ----
(***************************************************************************)
(* State-machine model of the keacast-ai-agent orchestration core:         *)
(*   - controllers/openaiController.js : sanitizeMessageArray, the chat    *)
(*     handler (assembly, size eviction, completion flow, session save)    *)
(*     and executeToolCalls; buildSessionKey and the session store as chat,*)
(*     analyzeTransactions, clearHistory, clearSessionById and             *)
(*     repairSession use it;                                               *)
(*     createIntelligentTruncation on a tool result;                       *)
(*   - services/openaiService.js : callAOAI (retry / backoff);             *)
(*   - services/contextCache.service.js : the context cache, each call an  *)
(*     await at a time, alone or beside the call of a second caller, and   *)
(*     its keys beside the session keys;                                   *)
(*   - tools/functionMap.js with services/accounts.service.js and          *)
(*     services/transactions.service.js : the paginated tools.             *)
(*                                                                         *)
(* A message is a record                                                   *)
(*   [role, content, tool_call_id, tool_calls]                             *)
(* where content is [id, len, pad]: id names the text (a pair <<kind, n>>), *)
(* len is its length in characters and pad is how many of them are leading *)
(* or trailing whitespace; tool_call_id is "" when the field is absent;    *)
(* tool_calls is the sequence of the ids of the requested calls (empty     *)
(* when the field is absent).                                              *)
(***************************************************************************)
EXTENDS Integers, Sequences, FiniteSets, TLC

VARIABLES
    \* ---- chat handler (one request on one session key) ----
    store,        \* redis value under the session key: the stored history
    pc,           \* position of the chat handler
    message,      \* req.body.message, as a content record
    history,      \* local `history`
    messages,     \* local `messages`
    requestSize,  \* local const `requestSize`
    attempts,     \* local `attempts` of the eviction loop
    sent,         \* every request handed to queryAzureOpenAI, in order
    toolCalls,    \* msg.tool_calls of the first response
    toolResults,  \* local `toolResults` of executeToolCalls
    result,       \* local `result`
    response,     \* what res.json / res.status(..).json sent to the caller
    \* ---- sanitizeMessageArray applied to an arbitrary array ----
    sanIn, sanOut, sanPc,
    \* ---- callAOAI ----
    retryCount,   \* parameter retryCount of the running invocation
    httpLog,      \* HTTP status of every axios.post made, in order
    delays,       \* argument of every sleep(), in order
    aoaiPc,       \* "call" | "returned" | "thrown"
    thrown,       \* status carried by the error thrown to the caller
    \* ---- context cache ----
    now,          \* wall clock, in minutes
    rCtx,         \* redis: context:user:U:account:A, per account
    rBal,         \* redis: balances:A:U, per account
    rUser,        \* redis: userdata:U
    rLast,        \* redis: lastupdated:U
    cur,          \* the operation that completed last, and what it did
    lastGet,      \* per account: build time returned by the latest undisturbed
                  \* getUserContext since the last invalidation
    \* ---- paginated tools ----
    pgIn,         \* the call: tool, args, ctx, database, outcome of each query
    pgOut,        \* what the tool returned, or that it threw
    pgPc,         \* "call" | "done"
    \* ---- the chat request and its environment ----
    loaded,       \* the history as redis.get handed it to the handler
    context,      \* which of the context fields of req.body are arrays
    service,      \* the completion service during this turn: the status its
                  \* failing calls carry, and whether its answers may lack a
                  \* usable choice
    \* ---- the session store shared by chat and summarize requests ----
    sessions,     \* redis: session key -> stored history
    reqs,         \* the requests in flight, per slot
    events,       \* what the requests did to the store and sent, in order
    \* ---- createIntelligentTruncation ----
    trIn, trOut, trPc,
    \* ---- the redis key space under invalidateUserCache ----
    keyStore,     \* the keys present in redis
    keyCall,      \* the invalidateUserCache call made: its argument and result
    \* ---- the calls of the context cache in flight ----
    gets,         \* per caller: the call it awaits, its position and locals
    invs          \* per account: the minute its latest invalidateAccountCache
                  \* completed

chatVars  == <<store, pc, message, history, messages, requestSize, attempts,
               sent, toolCalls, toolResults, result, response>>
sanVars   == <<sanIn, sanOut, sanPc>>
retryVars == <<retryCount, httpLog, delays, aoaiPc, thrown>>
cacheVars == <<now, rCtx, rBal, rUser, rLast, cur, lastGet>>
pageVars  == <<pgIn, pgOut, pgPc>>
turnVars  == <<loaded, context, service>>
sessVars  == <<sessions, reqs, events>>
truncVars == <<trIn, trOut, trPc>>
keyVars   == <<keyStore, keyCall>>
raceVars  == <<gets, invs>>
vars      == <<chatVars, sanVars, retryVars, cacheVars, pageVars, turnVars, sessVars,
               truncVars, keyVars, raceVars>>

(***************************************************************************)
(* Program constants                                                       *)
(***************************************************************************)
MAX_MEMORY == 10
MAX_MESSAGE_LENGTH == 20000
SYSTEM_PROMPT_MAX_LENGTH == 15000
RequestSizeLimit == 750000
maxAttempts == 20
MinHistoryKept == 2
FinalKeepLast == 5
ToolContentLimit == 10000
MAX_RETRIES == 3
RETRY_DELAY == 2000
\* HTTP status of an error that carries no response (error.response undefined)
NoStatus == 0
\* length of the three-character suffix appended by truncateText
EllipsisLen == 3
\* length, as JSON.stringify writes it between the quotes, of the base system
\* prompt (with a date of ten characters) and of the tool-guidance context
\* message without its four session fields (its four dates are ten characters
\* each)
SystemLen == 8916
ContextFixedLen == 2875
\* the session fields of the context message: 'Not available' stands for an
\* absent userId, accountid, token or location
NotAvailableLen == 13
\* extractAuthFromRequest takes userId from body.sessionId, the x-user-id header
\* or req.user.id: every chat request of the model has a userId of two
\* characters ("s1" or "s2" in the body, else the authenticated user "u9") and
\* carries no accountid, no token and no location
UserIdLen == 2
ContextLen == ContextFixedLen + UserIdLen + 3 * NotAvailableLen
\* fixed text of the synthetic tool-summary user turn around the joined lines,
\* and of the answer built when the final request fails
SummaryBaseLen == 259
SynthesizedBaseLen == 25
\* '## \u00e2\u0153\u2026 Transaction Created Successfully!\n\n**' and '**' around the message
CreatedBaseLen == 46
\* '\n\n**Transaction ID:** '
TransactionIdLen == 22
\* '## Transaction Processed\n\n**' and '**' around the message
ProcessedBaseLen == 30
\* 'Transaction has been handled.'
HandledLen == 29
\* the text of line 530
ProcessedConstantLen == 89
\* 'Retrieved' (line 446) and 'Found' (line 505)
RetrievedLen == 9
FoundLen == 5
\* the error text of the object getBalances returns when it has no account id
AccountRequiredLen == 63
\* 'Memory limit exceeded', the error field of the sort-memory fallback
MemoryLimitLen == 21
\* 'Account ID is required but not provided in context'
ContextRequiredLen == 50
\* 'API call failed: ' and the text of an undefined message, 'undefined'
ApiFailedLen == 17
UndefinedTextLen == 9
\* the separator of toolSummary.join('. ') and summary.join('. ')
JoinLen == 2

(***************************************************************************)
(* Bounds of the model                                                     *)
(***************************************************************************)
MaxSanLen == 4       \* longest array given to sanitizeMessageArray alone
MaxHead == 2         \* free messages at the front of a stored history
MaxBulk == 21        \* filler turns that follow them
MaxToolCalls == 3    \* tool calls of one response (executeToolCalls alone)
ItemCount == 12      \* items of the array the tool layer returns
ThrownMessageLen == 35   \* message of an error that comes from beneath the tools
MessageLen == 40     \* message of the object createTransaction returns
TransactionIdDigits == 5   \* characters of the id of a created transaction

(***************************************************************************)
(* Sequence helpers                                                        *)
(***************************************************************************)
Max(a, b) == IF a >= b THEN a ELSE b
Min(a, b) == IF a <= b THEN a ELSE b

\* Array.prototype.slice(-n)
SliceLast(s, n) == SubSeq(s, Max(1, Len(s) - n + 1), Len(s))

\* Array.prototype.map(fn) with a callback of two parameters: the callback
\* receives the element and its index, which counts from 0
MapIndexed(Op(_, _), s) == [i \in 1..Len(s) |-> Op(s[i], i - 1)]

RECURSIVE SeqsUpTo(_, _)
SeqsUpTo(S, n) ==
    IF n = 0 THEN {<<>>}
    ELSE LET shorter == SeqsUpTo(S, n - 1)
         IN  shorter \cup {Append(s, x) : s \in {t \in shorter : Len(t) = n - 1}, x \in S}

(***************************************************************************)
(* Messages                                                                *)
(***************************************************************************)
\* The roles a chat message carries.
Roles == {"user", "assistant", "tool", "system"}

Content(kind, n, len) == [id |-> <<kind, n>>, len |-> len, pad |-> 0]
\* a text of len characters of which the first and the last pad / 2 are blanks
Padded(kind, n, len, pad) == [id |-> <<kind, n>>, len |-> len, pad |-> pad]
NullContent == Content("null", 0, 0)

Msg(role, content, tcid, calls) ==
    [role |-> role, content |-> content, tool_call_id |-> tcid, tool_calls |-> calls]

Plain(role, content) == Msg(role, content, "", <<>>)

\* controllers/openaiController.js truncateText: the text is trimmed, and when
\* the trimmed text is longer than maxChars it is cut to maxChars - 1 characters
\* and the suffix is appended
truncateText(text, maxChars) ==
    LET str == text.len - text.pad IN
    [text EXCEPT !.pad = 0,
                 !.len = IF str <= maxChars THEN str
                         ELSE Max(0, maxChars - 1) + EllipsisLen]

\* truncateMessage(message, maxLength = MAX_MESSAGE_LENGTH)
truncateMessage(m, maxLength) ==
    IF m.content.id[1] # "null" /\ m.content.len > 0
    THEN [m EXCEPT !.content =
            truncateText(@, IF m.role = "system" THEN SYSTEM_PROMPT_MAX_LENGTH
                                                 ELSE maxLength)]
    ELSE m

\* variant: any earlier assistant message with tool_calls vouches for the tool
\* message, whatever the ids
HasPrecedingCall_AnyId(ms, i) ==
    \E j \in 1..(i - 1) : ms[j].role = "assistant" /\ Len(ms[j].tool_calls) > 0

\* variant: a tool message is vouched for by the message right before it, an
\* assistant message that requests its id or another tool message
HasPrecedingCall_Adjacent(ms, i) ==
    /\ i > 1
    /\ \/ ms[i - 1].role = "tool"
       \/ /\ ms[i - 1].role = "assistant"
          /\ \E k \in 1..Len(ms[i - 1].tool_calls) :
                ms[i - 1].tool_calls[k] = ms[i].tool_call_id

\* does some message before position i carry tool_calls with this id
\* (the backwards scan of sanitizeMessageArray)
HasPrecedingCall(ms, i) ==
    \E j \in 1..(i - 1) :
        /\ ms[j].role = "assistant"
        /\ Len(ms[j].tool_calls) > 0
        /\ \E k \in 1..Len(ms[j].tool_calls) : ms[j].tool_calls[k] = ms[i].tool_call_id

ShouldKeep(ms, i) ==
    IF ms[i].role \in {"system", "user", "assistant"} THEN TRUE
    ELSE IF ms[i].role = "tool" THEN HasPrecedingCall(ms, i)
    ELSE TRUE

RECURSIVE SanitizeFrom(_, _, _)
SanitizeFrom(ms, i, sanitized) ==
    IF i > Len(ms) THEN sanitized
    ELSE SanitizeFrom(ms, i + 1,
                      IF ShouldKeep(ms, i) THEN Append(sanitized, ms[i]) ELSE sanitized)

sanitizeMessageArray(ms) == SanitizeFrom(ms, 1, <<>>)

\* JSON.stringify(m).length for a message, content taken as escape-free text:
\*   {"role":"R","content":"C"}  plus ,"tool_call_id":"X"  plus ,"tool_calls":[{"id":"X"},..]
RoleLen(r) == CASE r = "system" -> 6 [] r = "user" -> 4 [] r = "assistant" -> 9
                [] r = "tool" -> 4 [] OTHER -> 8
ContentJson(c) == IF c.id[1] = "null" THEN 4 ELSE c.len + 2
MsgJson(m) ==
    22 + RoleLen(m.role) + ContentJson(m.content)
    + (IF m.tool_call_id # "" THEN 18 + 2 ELSE 0)
    + (IF Len(m.tool_calls) > 0 THEN 16 + 12 * Len(m.tool_calls) - 1 ELSE 0)

RECURSIVE SumJson(_, _)
SumJson(ms, i) == IF i > Len(ms) THEN 0 ELSE MsgJson(ms[i]) + SumJson(ms, i + 1)

\* JSON.stringify(messages).length
JsonSize(ms) == 2 + SumJson(ms, 1) + Max(0, Len(ms) - 1)

Range(s) == {s[i] : i \in 1..Len(s)}
Last(s) == s[Len(s)]

\* Orphan tool message (spec, section 3): a tool message whose id is requested by
\* no assistant message before it in the sequence
CallIdsBefore(ms, i) ==
    UNION {Range(ms[j].tool_calls) : j \in {k \in 1..(i - 1) : ms[k].role = "assistant"}}
IsOrphan(ms, i) == ms[i].role = "tool" /\ ms[i].tool_call_id \notin CallIdsBefore(ms, i)
HasOrphan(ms) == \E i \in 1..Len(ms) : IsOrphan(ms, i)

(***************************************************************************)
(* Inputs: stored histories, user messages, tool calls                      *)
(***************************************************************************)
SmallLen == 10
BulkLen == 30000
MidLen == 600000
HugeLen == 800000
AnswerLen == 50
\* blanks around the text of a stored assistant message
PadLen == 2

HeadKinds == {"u", "a", "ac", "t1", "s"}
SanKinds == HeadKinds \cup {"t2", "ac12"}

\* the k-th stored message, of the given kind
KindMsg(kind, k) ==
    CASE kind = "u"    -> Plain("user", Content("h", k, SmallLen))
      [] kind = "a"    -> Plain("assistant", Padded("h", k, SmallLen, PadLen))
      [] kind = "ac"   -> Msg("assistant", NullContent, "", <<"c1">>)
      [] kind = "ac12" -> Msg("assistant", NullContent, "", <<"c1", "c2">>)
      [] kind = "t1"   -> Msg("tool", Content("h", k, SmallLen), "c1", <<>>)
      [] kind = "t2"   -> Msg("tool", Content("h", k, SmallLen), "c2", <<>>)
      [] OTHER         -> Plain("system", Content("h", k, SmallLen))

KindSeq(ks) == [k \in 1..Len(ks) |-> KindMsg(ks[k], k)]

\* n filler turns, alternately user and assistant, each longer than
\* MAX_MESSAGE_LENGTH as stored
Bulk(n) == [i \in 1..n |->
              Plain(IF i % 2 = 1 THEN "user" ELSE "assistant", Content("b", i, BulkLen))]

Histories == {KindSeq(ks) \o Bulk(n) : ks \in SeqsUpTo(HeadKinds, MaxHead), n \in 0..MaxBulk}

NewLens == {SmallLen, MidLen, HugeLen}
NewMessages == {Content("new", 0, l) : l \in NewLens}

IsHistoryMessage(m) == m.content.id[1] \in {"h", "b", "null"}

\* own properties of the functionMap object literal, and the function-valued
\* properties every object literal inherits from Object.prototype
Registry == {"getUserAccounts", "getUserAccountData", "getUserTransactions",
             "getRecurringForecasts", "getUpcomingTransactions", "getTransactionSummary",
             "getUserData", "getSelectedKeacastAccounts", "getBalances",
             "createTransaction", "deleteTransaction"}
ObjectPrototypeNames ==
    {"constructor", "toString", "hasOwnProperty", "valueOf", "isPrototypeOf",
     "propertyIsEnumerable", "toLocaleString", "__defineGetter__", "__defineSetter__",
     "__lookupGetter__", "__lookupSetter__"}
\* the inherited accessor __proto__ reads as Object.prototype: an object, truthy
\* and not callable
ObjectPrototypeAccessors == {"__proto__"}
\* called as a plain function with (args, ctx) and args an object: Object(args)
\* and Object.prototype.toString() return, the other nine throw a TypeError on
\* the undefined receiver
InheritedReturns == {"constructor", "toString"}

\* functionMap[name]
functionMapLookup(name) ==
    IF name \in Registry THEN "tool"
    ELSE IF name \in ObjectPrototypeNames THEN "inherited"
    ELSE IF name \in ObjectPrototypeAccessors THEN "object"
    ELSE "undefined"

\* name.length
NameLen(name) ==
    CASE name \in {"valueOf"} -> 7
      [] name \in {"toString"} -> 8
      [] name \in {"__proto__"} -> 9
      [] name \in {"noSuchTool"} -> 10
      [] name \in {"getUserData", "getBalances", "constructor"} -> 11
      [] name \in {"isPrototypeOf"} -> 13
      [] name \in {"hasOwnProperty", "toLocaleString"} -> 14
      [] name \in {"getUserAccounts"} -> 15
      [] name \in {"__defineGetter__", "__defineSetter__", "__lookupGetter__",
                   "__lookupSetter__"} -> 16
      [] name \in {"createTransaction", "deleteTransaction"} -> 17
      [] name \in {"getUserAccountData"} -> 18
      [] name \in {"getUserTransactions"} -> 19
      [] name \in {"propertyIsEnumerable"} -> 20
      [] name \in {"getRecurringForecasts", "getTransactionSummary"} -> 21
      [] name \in {"getUpcomingTransactions"} -> 23
      [] OTHER -> 26

\* the length of a field, or the item count of a list, that is not there
Absent == 0 - 1

RECURSIVE Digits(_)
Digits(n) == IF n < 10 THEN 1 ELSE 1 + Digits(n \div 10)

\* a requested call: the name the model asked for and what the layer beneath
\* the tool (the services, the tool layer) does when the tool is invoked:
\*   "returns"       it returns an object without error and message fields
\*   "returnsArray"  it returns an array of ItemCount items
\*   "created"       it returns {message: '... successfully created ...', data: {id}}
\*   "message"       it returns a message without the words 'successfully created'
\*   "returnsError"  the tool finds no account id and hands back an object with
\*                   an error field, or the tool layer returns such an object
\*   "sortMemory"    the paginated query rejects with a 'sort memory' error and
\*                   the count that follows succeeds
\*   "throws"        it throws or rejects with an error that has no message
\*   "throwsMessage" it rejects with an error whose message has ThrownMessageLen
\*                   characters and does not speak of sort memory
\* (the tool layer is not part of the sources; each shape of its results the
\* summaries tell apart is one outcome)
ToolCall(name, outcome) == [name |-> name, outcome |-> outcome]
ToolCallKinds == {ToolCall("getBalances", "returns"), ToolCall("getBalances", "throws"),
                  ToolCall("getBalances", "returnsError"),
                  ToolCall("getUserData", "returnsArray"),
                  ToolCall("createTransaction", "created"),
                  ToolCall("createTransaction", "message"),
                  ToolCall("createTransaction", "returns"),
                  ToolCall("createTransaction", "throws"),
                  ToolCall("getUserData", "returns"), ToolCall("noSuchTool", "returns"),
                  ToolCall("getUserAccountData", "returns"),
                  ToolCall("getUserAccounts", "throws"),
                  ToolCall("getUserAccounts", "throwsMessage"),
                  ToolCall("constructor", "returns"), ToolCall("valueOf", "returns"),
                  ToolCall("__proto__", "returns")}
\* the tool calls of the first response inside a whole chat turn
ChatCallLists ==
    {<<ToolCall("getBalances", "returns")>>, <<ToolCall("createTransaction", "throws")>>,
     <<ToolCall("getUserData", "returns"), ToolCall("getBalances", "throws")>>}

NonEmptySeqs(S, n) == {s \in SeqsUpTo(S, n) : Len(s) > 0}

(***************************************************************************)
(* executeToolCalls                                                         *)
(***************************************************************************)
\* JSON.parse(tr.content) as far as the summaries read it: the lengths of
\* content.error, content.message and content.data.id (0: absent), whether the
\* message includes 'successfully created', and content.length of an array
\* (Absent for what is no array)
PlainObject == [error |-> 0, message |-> 0, created |-> FALSE, id |-> 0, items |-> Absent]
ErrorObject(len) == [PlainObject EXCEPT !.error = len]
\* what a tool that awaits the tool layer hands back when the layer returns
ToolResultOf(call) ==
    CASE call.outcome = "returnsError" ->
            ErrorObject(IF call.name = "getBalances" THEN AccountRequiredLen
                        ELSE ThrownMessageLen)
      [] call.outcome = "returnsArray" -> [PlainObject EXCEPT !.items = ItemCount]
      [] call.outcome = "created" ->
            [PlainObject EXCEPT !.message = MessageLen, !.created = TRUE,
                                !.id = TransactionIdDigits]
      [] call.outcome = "message" -> [PlainObject EXCEPT !.message = MessageLen]
      [] OTHER -> PlainObject

\* tools/functionMap.js lines 433-466, 475-530, 532-566, 568-604: the tools
\* that try a paginated query and catch its error
PaginatedTools == {"getUserAccounts", "getUserTransactions", "getRecurringForecasts",
                   "getUpcomingTransactions"}

\* await toolFn(args, ctx) for a registered tool: whether it threw, the
\* message of what it threw, and what it returned as the summaries read it
Returned(parsed) == [threw |-> FALSE, error |-> "", parsed |-> parsed]
Thrown(err) == [threw |-> TRUE, error |-> err, parsed |-> PlainObject]

\* tools/functionMap.js lines 432-765, the registered tools:
\*   getUserAccountData calls an identifier the module neither imports nor
\*     defines: a ReferenceError on every call;
\*   a paginated tool returns the object of its service ({accounts, pagination},
\*     never an array); its catch reads error.message.includes, a TypeError when
\*     the error has no message, returns an object with the error 'Memory limit
\*     exceeded' for a sort-memory error, and throws any other error again;
\*     getUserTransactions without an account id returns an object with an error;
\*   getTransactionSummary catches and returns {error: error.message}, a field
\*     JSON.stringify leaves out when the message is undefined;
\*   getSelectedKeacastAccounts catches and returns {error: 'API call failed:
\*     ...'}, returns an error object without an account id, and otherwise the
\*     JSON text of the structured result, a string;
\*   getUserData, getBalances, createTransaction and deleteTransaction hand back
\*     what the tool layer returns and let its errors through
RegisteredTool(call) ==
    IF call.name = "getUserAccountData" THEN Thrown("name is not defined")
    ELSE IF call.name \in PaginatedTools
    THEN CASE call.outcome = "throws" ->
                 Thrown("Cannot read properties of undefined (reading 'includes')")
           [] call.outcome = "throwsMessage" -> Thrown("thrown message")
           [] call.outcome = "sortMemory" -> Returned(ErrorObject(MemoryLimitLen))
           [] call.outcome = "returnsError" /\ call.name = "getUserTransactions" ->
                 Returned(ErrorObject(AccountRequiredLen))
           [] OTHER -> Returned(PlainObject)
    ELSE IF call.name = "getTransactionSummary"
    THEN IF call.outcome \in {"throwsMessage", "sortMemory"}
         THEN Returned(ErrorObject(ThrownMessageLen))
         ELSE Returned(PlainObject)
    ELSE IF call.name = "getSelectedKeacastAccounts"
    THEN CASE call.outcome = "returnsError" -> Returned(ErrorObject(ContextRequiredLen))
           [] call.outcome = "throws" ->
                 Returned(ErrorObject(ApiFailedLen + UndefinedTextLen))
           [] call.outcome \in {"throwsMessage", "sortMemory"} ->
                 Returned(ErrorObject(ApiFailedLen + ThrownMessageLen))
           [] OTHER -> Returned(PlainObject)
    ELSE CASE call.outcome = "throws" -> Thrown("Tool execution failed")
           [] call.outcome \in {"throwsMessage", "sortMemory"} -> Thrown("thrown message")
           [] OTHER -> Returned(ToolResultOf(call))

\* lines 409 and 418: an entry has either content (and result) or error
ErrorEntry(name, err) ==
    [name |-> name, error |-> err, hasResult |-> FALSE, parsed |-> PlainObject]
ResultEntry(name, parsed) ==
    [name |-> name, error |-> "", hasResult |-> TRUE, parsed |-> parsed]

\* one iteration of the for loop: the entry pushed for a call; the error of an
\* entry is err?.message || 'Tool execution failed'
ToolEntry(call) ==
    LET toolFn == functionMapLookup(call.name) IN
    IF toolFn = "undefined" THEN ErrorEntry(call.name, "Unknown tool: name")
    ELSE IF toolFn = "tool"
         THEN IF RegisteredTool(call).threw
              THEN ErrorEntry(call.name, RegisteredTool(call).error)
              ELSE ResultEntry(call.name, RegisteredTool(call).parsed)
    ELSE IF toolFn = "object" THEN ErrorEntry(call.name, "toolFn is not a function")
    ELSE IF call.name \in InheritedReturns THEN ResultEntry(call.name, PlainObject)
    ELSE IF call.name = "toLocaleString"
         THEN ErrorEntry(call.name,
                         "Object.prototype.toLocaleString called on null or undefined")
         ELSE ErrorEntry(call.name, "Cannot convert undefined or null to object")

\* tr.error.length
ErrorLen(tr) ==
    CASE tr.error = "Unknown tool: name" -> 14 + NameLen(tr.name)
      [] tr.error = "Tool execution failed" -> 21
      [] tr.error = "name is not defined" -> NameLen(tr.name) + 15
      [] tr.error = "Cannot read properties of undefined (reading 'includes')" -> 56
      [] tr.error = "thrown message" -> ThrownMessageLen
      [] tr.error = "toolFn is not a function" -> 24
      [] tr.error = "Object.prototype.toLocaleString called on null or undefined" -> 59
      [] OTHER -> 42

\* lines 428-449 (verbLen = RetrievedLen) and 487-509 (verbLen = FoundLen), the
\* length of one line of the summary:
\*   `Error in ${tr.name}: ${tr.error}`, `Error in ${tr.name}: ${content.error}`,
\*   `Successfully created transaction: ${'ID ' + id | 'Transaction created'}. ${message}`,
\*   `Transaction creation completed: ${message | 'Transaction processed'}`,
\*   `Retrieved ${n} items from ${tr.name}` / `Found ${n} items from ${tr.name}`,
\*   `Successfully retrieved data from ${tr.name}`
SummaryLineLen(tr, verbLen) ==
    IF ~tr.hasResult THEN 9 + NameLen(tr.name) + 2 + ErrorLen(tr)
    ELSE IF tr.parsed.error > 0 THEN 9 + NameLen(tr.name) + 2 + tr.parsed.error
    ELSE IF tr.name = "createTransaction"
         THEN IF tr.parsed.message > 0 /\ tr.parsed.created
              THEN 34 + (IF tr.parsed.id > 0 THEN 3 + tr.parsed.id ELSE 19)
                      + 2 + tr.parsed.message
              ELSE 32 + (IF tr.parsed.message > 0 THEN tr.parsed.message ELSE 21)
    ELSE IF tr.parsed.items > 0
         THEN verbLen + 1 + Digits(tr.parsed.items) + 12 + NameLen(tr.name)
    ELSE 33 + NameLen(tr.name)

RECURSIVE JoinedLen(_, _, _)
\* lines.join('. ').length for the lines of trs[i..]
JoinedLen(trs, verbLen, i) ==
    IF i > Len(trs) THEN 0
    ELSE SummaryLineLen(trs[i], verbLen) + (IF i < Len(trs) THEN JoinLen ELSE 0)
         + JoinedLen(trs, verbLen, i + 1)

\* the synthetic user turn that carries one summary line per tool result
SummaryMessage(trs) ==
    Plain("user", Content("summary", Len(trs),
                          SummaryBaseLen + JoinedLen(trs, RetrievedLen, 1)))

\* the list sent with the final request: messages plus the summary turn, cut to
\* its last five messages when it serializes to more than the limit
FinalMessages(ms, trs) ==
    LET cleanMessages == Append(ms, SummaryMessage(trs)) IN
    IF JsonSize(cleanMessages) > RequestSizeLimit
    THEN SliceLast(cleanMessages, FinalKeepLast)
    ELSE cleanMessages

\* variant: cleanMessages is the array it was given, and the push reaches it
OriginalMessagesAfter_Aliased(ms, trs) == Append(ms, SummaryMessage(trs))

\* line 424: cleanMessages is a copy ([...originalMessages]); the push of line
\* 454 and the slice of line 470 leave originalMessages as it was
OriginalMessagesAfter(ms, trs) == ms

\* variant: the final request leaves the tool choice to the model
FinalToolChoice_Auto == "auto"

FinalToolChoice == "none"

\* an answer of the catch block: its heading, the entries it was built from
\* and its length
Synthesized(heading, n, len) == [id |-> <<"synth", heading, n>>, len |-> len, pad |-> 0]

IsTransactionResult(tr) == tr.name = "createTransaction"

\* lines 513-535, the answer built in the catch block. With a createTransaction
\* entry among the results the answer is built from the first such entry alone:
\* JSON.parse of the content an error entry does not have throws, which gives
\* the text of line 530. Without one it is the heading and the lines of
\* `summary` joined
SynthesizedAnswer(trs) ==
    LET transactionResults == SelectSeq(trs, IsTransactionResult) IN
    IF Len(transactionResults) > 0
    THEN LET parsed == transactionResults[1].parsed IN
         IF ~transactionResults[1].hasResult
         THEN Synthesized("Transaction Processed, constant", 0, ProcessedConstantLen)
         ELSE IF parsed.message > 0 /\ parsed.created
         THEN Synthesized("Transaction Created Successfully", 1,
                          CreatedBaseLen + parsed.message
                            + (IF parsed.id > 0 THEN TransactionIdLen + parsed.id ELSE 0))
         ELSE Synthesized("Transaction Processed", 1,
                          ProcessedBaseLen
                            + (IF parsed.message > 0 THEN parsed.message ELSE HandledLen))
    ELSE Synthesized("Action Completed", Len(trs),
                     SynthesizedBaseLen + JoinedLen(trs, FoundLen, 1))

(***************************************************************************)
(* chat                                                                     *)
(***************************************************************************)
SystemMessage == Plain("system", Content("system", 0, SystemLen))
ContextMessage == Plain("user", Content("context", 0, ContextLen))
UserMessage(m) == Plain("user", m)

EmptyContent == Content("empty", 0, 0)
NoResponseText == Content("noResponse", 0, 52)
ErrorText == Content("errorText", 0, 105)

\* a completion response: the content and the tool_calls of its first choice
Completion(content, calls) == [present |-> TRUE, content |-> content, tool_calls |-> calls]
NoCompletion == [present |-> FALSE, content |-> EmptyContent, tool_calls |-> <<>>]
Answer(k) == Content("answer", k, AnswerLen)
\* responses that carry no tool calls the handler would act on, and responses to
\* a tool_choice none request, which the handler reads for their content only
TextCompletions(k) == {Completion(Answer(k), <<>>), Completion(EmptyContent, <<>>)}
AnyCompletions(k) ==
    TextCompletions(k) \cup {Completion(EmptyContent, <<ToolCall("getBalances", "returns")>>)}

\* responses with no usable choice: no body at all, no choices (absent or an
\* empty array), a choice without message, a message whose content is null
Malformed ==
    {[NoCompletion EXCEPT !.content = Content("noBody", 0, 0)],
     Completion(Content("noChoices", 0, 0), <<>>),
     Completion(Content("noMessage", 0, 0), <<>>), Completion(NullContent, <<>>)}
\* what the service of this turn may answer to a request
Answers(S) == IF service.malformed THEN S \cup Malformed ELSE S

\* response?.choices?.[0]?.message?.content || ''
ContentOf(r) == IF r.present /\ r.content.len > 0 THEN r.content ELSE EmptyContent

Result(content, raw, error) == [content |-> content, raw |-> raw, error |-> error]
NoResult == Result(EmptyContent, NoCompletion, FALSE)
NoResponse == [status |-> 0, body |-> EmptyContent, memoryUsed |-> 0, error |-> FALSE]

\* a call of queryAzureOpenAI: what was sent and how it ended; status is the
\* HTTP status of the error it threw
Request(kind, ms, choice, outcome) ==
    [kind |-> kind, messages |-> ms, tool_choice |-> choice, outcome |-> outcome,
     status |-> IF outcome = "failed" THEN service.failure ELSE 200]

ContextKinds == {"absent", "notArrays", "emptyArrays", "arrays"}
\* extractContextFromBody returns an object with the keys accounts, categories,
\* shoppingList and transactions as soon as one of them is an array, and
\* undefined otherwise
extractContextFromBody(kind) == IF kind \in {"emptyArrays", "arrays"} THEN "object" ELSE "undefined"
\* createContextSummary(userContext || {}): { hasData: false } for the empty
\* object; otherwise line 380 evaluates userContext.balances.find(..), and the
\* object built by extractContextFromBody has no balances
createContextSummary(userContext) ==
    IF userContext = "undefined" THEN "noData" ELSE "TypeError"

\* lines 737-762: system prompt, sanitized truncated history, context, new message
BuildMessages(h, m) ==
    <<SystemMessage>> \o sanitizeMessageArray(MapIndexed(truncateMessage, h))
        \o <<ContextMessage>> \o <<UserMessage(m)>>

\* lines 782-783: splice(1, length - 2) then splice(1, 0, ...history.map(truncateMessage))
RebuildMessages(ms, h) ==
    <<ms[1]>> \o MapIndexed(truncateMessage, h) \o <<ms[Len(ms)]>>

\* the condition of the while loop at line 777
ShouldEvict(size, att, h) ==
    size > RequestSizeLimit /\ att < maxAttempts /\ Len(h) > MinHistoryKept
EvictCondition == ShouldEvict(requestSize, attempts, history)

\* lines 777-795 run to the end: the history and the list the loop leaves
RECURSIVE EvictLoop(_, _, _, _)
EvictLoop(h, ms, size, att) ==
    IF ShouldEvict(size, att, h)
    THEN LET shifted == Tail(h)
             rebuilt == RebuildMessages(ms, shifted)
         IN  IF JsonSize(rebuilt) <= RequestSizeLimit
             THEN [history |-> shifted, messages |-> rebuilt]
             ELSE EvictLoop(shifted, rebuilt, size, att + 1)
    ELSE [history |-> h, messages |-> ms]

\* variant: the answer is used as it is
FinalText_NoDefault(r) == r.content

\* line 848: result.content || the no-response text
FinalText(r) == IF r.content.len > 0 THEN r.content ELSE NoResponseText

\* variant: the assistant message that asked for the tools and one tool message
\* per result are stored with the turn
UpdatedHistory_WithToolMessages(h, m, text) ==
    SliceLast(sanitizeMessageArray(h)
                \o <<UserMessage(m), Msg("assistant", NullContent, "", <<"c1">>)>>
                \o [i \in 1..Len(toolResults) |->
                       Msg("tool", Content("payload", i, SmallLen), "c1", <<>>)]
                \o <<Plain("assistant", text)>>,
              MAX_MEMORY)

\* variant: the updated history is stored whole, without the window
UpdatedHistory_NoWindow(h, m, text) ==
    sanitizeMessageArray(h) \o <<UserMessage(m), Plain("assistant", text)>>

\* lines 849-853
UpdatedHistory(h, m, text) ==
    SliceLast(sanitizeMessageArray(h) \o <<UserMessage(m), Plain("assistant", text)>>,
              MAX_MEMORY)

(***************************************************************************)
(* services/contextCache.service.js                                         *)
(*                                                                         *)
(* One user with several accounts.  The cache store (redis) holds, per     *)
(* key, an entry [val, at]: the value and the minute it was set; a key is  *)
(* readable while its TTL has not run out.  Values are named by the minute *)
(* they were produced.  An operation is a series of awaits (redis calls and *)
(* provider calls); other calls and the clock may act between two of them. *)
(* Its environment is a fault record F:                                    *)
(*   downFrom  - the store fails from this redis call of the operation on  *)
(*               (NoOutage: never);                                        *)
(*   setsFail  - every redis.set / redis.del of the operation fails;       *)
(*   who, k    - the first k invocations of provider `who` throw.          *)
(***************************************************************************)
CACHE_TTL_USER_CONTEXT == 3600
CACHE_TTL_USER_DATA == 7200
CACHE_TTL_BALANCES == 1800
FreshMinutes == 30
SecondsPerMinute == 60

Accounts == {"acct1", "acct2"}
Never == 0 - 1
NoOutage == 0
MaxClock == 30
TickMinutes == 15
MaxRedisCalls == 8
MaxProviderFailures == 4

ThrowingProviders == {"getUserData", "getBalances"}
Faults ==
    {[downFrom |-> d, setsFail |-> sf, who |-> "none", k |-> 0] :
        d \in {NoOutage} \cup (1..MaxRedisCalls), sf \in BOOLEAN}
    \cup {[downFrom |-> d, setsFail |-> FALSE, who |-> w, k |-> k] :
        d \in {NoOutage, 1}, w \in ThrowingProviders, k \in 1..MaxProviderFailures}
NoFault == [downFrom |-> NoOutage, setsFail |-> FALSE, who |-> "none", k |-> 0]
\* the store is down for the whole operation
Outage == [downFrom |-> 1, setsFail |-> FALSE, who |-> "none", k |-> 0]

NoContext == [buildTime |-> Never, account |-> "", userAt |-> Never, balAt |-> Never,
              balCached |-> FALSE]
NoEntry == [val |-> Never, at |-> Never]
NoCtxEntry == [val |-> NoContext, at |-> Never]
NoCall == [op |-> "none", acc |-> "", at |-> 0, begun |-> 0, ok |-> TRUE, cached |-> FALSE,
           ctx |-> NoContext, val |-> Never, pcalls |-> <<>>, rfailed |-> FALSE,
           provFault |-> FALSE, writes |-> {}, prev |-> Never, after |-> "none",
           since |-> Never, overlapped |-> FALSE]

\* the key was set and its TTL (seconds) has not run out
Live(e, ttl) == e.at # Never /\ now * SecondsPerMinute < e.at * SecondsPerMinute + ttl
\* what redis.get returns for a key: its entry, or nothing
RedisGet(e, ttl, none) == IF Live(e, ttl) THEN e ELSE none

\* the cache store
CacheStore == [ctx |-> rCtx, bal |-> rBal, user |-> rUser, last |-> rLast]

\* a call of an operation of the service: who called what, where it stands
\* (pc: the await it is about to make), its locals, what it did so far and
\* what it returned
IdleCall ==
    [op |-> "none", acc |-> "", F |-> NoFault, observed |-> TRUE, pc |-> "idle",
     inCatch |-> FALSE, begun |-> 0, since |-> Never, overlapped |-> FALSE,
     rcalls |-> 0, rfailed |-> FALSE, pcalls |-> <<>>, writes |-> {},
     cachedContext |-> NoCtxEntry, userData |-> Never, freshContext |-> NoContext,
     lastUpdatedValue |-> Never, keys |-> {}, ok |-> TRUE, cached |-> FALSE,
     ctx |-> NoContext, val |-> Never]

\* the first await of each operation
FirstAwait(op) ==
    CASE op \in {"getUserContext", "warmUpCache"} -> "redis.get context"
      [] op = "getUserDataCached" -> "redis.get userData"
      [] op = "getBalancesCached" -> "redis.get balances"
      [] op = "invalidateAccountCache" -> "redis.del account"
      [] OTHER -> "redis.keys"

Busy(c) == c.pc # "idle"

\* does the next redis call of the operation throw
RedisFails(c, kind) ==
    \/ c.F.downFrom # NoOutage /\ c.rcalls + 1 >= c.F.downFrom
    \/ c.F.setsFail /\ kind \in {"set", "del"}
RedisCall(c, kind) ==
    [c EXCEPT !.rcalls = @ + 1, !.rfailed = @ \/ RedisFails(c, kind)]

Count(s, x) == Cardinality({i \in 1..Len(s) : s[i] = x})
\* does the next invocation of functionMap[name] throw
ProviderFails(c, name) == c.F.who = name /\ Count(c.pcalls, name) < c.F.k
Invoke(c, name) == [c EXCEPT !.pcalls = Append(@, name)]

\* one await of a call: the call and the store after it
Stepped(c, st) == [c |-> c, st |-> st]
\* the operation returns (ok) or throws
Returns(c) == [c EXCEPT !.pc = "done", !.ok = TRUE]
Throws(c) == [c EXCEPT !.pc = "done", !.ok = FALSE]
IsContextOp(c) == c.op \in {"getUserContext", "warmUpCache"}

\* lines 70-74: the catch of getUserContext awaits buildUserContext once more
GetUserContextCatch(c) == [c EXCEPT !.inCatch = TRUE, !.pc = "redis.get userData"]

\* lines 147-150: buildUserContext rethrows; inside the try block of
\* getUserContext the catch takes over, inside the catch nothing does
BuildThrows(c) == IF c.inCatch THEN Throws(c) ELSE GetUserContextCatch(c)

\* the direct provider call of lines 197 and 225 throws
FetchThrows(c) == IF IsContextOp(c) THEN BuildThrows(c) ELSE Throws(c)

\* variant: the catch block rethrows instead of calling the provider
CachedFetchCatch_Rethrow(c, name) == FetchThrows(c)

\* lines 194-198 and 222-226: catch, then the direct provider call
CachedFetchCatch(c, name) ==
    [c EXCEPT !.pc = IF name = "getUserData" THEN "direct getUserData"
                     ELSE "direct getBalances"]

\* getUserDataCached returns val: to its caller, or into buildUserContext,
\* which goes on to line 97
UserDataReturned(c, val, fromCache) ==
    IF IsContextOp(c)
    THEN [c EXCEPT !.userData = val, !.pc = "getSelectedKeacastAccounts"]
    ELSE [Returns(c) EXCEPT !.val = val, !.cached = fromCache]

\* lines 176-199, one await
getUserDataCached(c, st) ==
    CASE c.pc = "redis.get userData" ->
           LET c1 == RedisCall(c, "get") IN
           IF RedisFails(c, "get") THEN Stepped(CachedFetchCatch(c1, "getUserData"), st)
           ELSE IF Live(st.user, CACHE_TTL_USER_DATA)
                THEN Stepped(UserDataReturned(c1, st.user.val, TRUE), st)
                ELSE Stepped([c1 EXCEPT !.pc = "getUserData"], st)
      [] c.pc = "getUserData" ->
           LET c1 == Invoke(c, "getUserData") IN
           IF ProviderFails(c, "getUserData")
           THEN Stepped(CachedFetchCatch(c1, "getUserData"), st)
           ELSE Stepped([c1 EXCEPT !.val = now, !.pc = "redis.set userData"], st)
      [] c.pc = "redis.set userData" ->
           LET c1 == RedisCall(c, "set") IN
           IF RedisFails(c, "set") THEN Stepped(CachedFetchCatch(c1, "getUserData"), st)
           ELSE Stepped(UserDataReturned([c1 EXCEPT !.writes = @ \cup {"user"}], c.val, FALSE),
                        [st EXCEPT !.user = [val |-> c.val, at |-> now]])
      [] OTHER ->
           LET c1 == Invoke(c, "getUserData") IN
           IF ProviderFails(c, "getUserData") THEN Stepped(FetchThrows(c1), st)
           ELSE Stepped(UserDataReturned(c1, now, FALSE), st)

\* lines 112-146: getBalancesCached returned val to buildUserContext, which
\* builds the context; lines 62-68 and 73: inside the try block of
\* getUserContext the context goes to cacheUserContext, inside the catch it is
\* returned
ContextBuilt(c, val, fromCache) ==
    LET userContext == [buildTime |-> now, account |-> c.acc, userAt |-> c.userData,
                        balAt |-> val, balCached |-> fromCache]
    IN  IF c.inCatch THEN [Returns(c) EXCEPT !.ctx = userContext, !.cached = FALSE]
        ELSE [c EXCEPT !.freshContext = userContext, !.pc = "redis.set context"]

BalancesReturned(c, val, fromCache) ==
    IF IsContextOp(c) THEN ContextBuilt(c, val, fromCache)
    ELSE [Returns(c) EXCEPT !.val = val, !.cached = fromCache]

\* lines 204-227, one await
getBalancesCached(c, st) ==
    CASE c.pc = "redis.get balances" ->
           LET c1 == RedisCall(c, "get") IN
           IF RedisFails(c, "get") THEN Stepped(CachedFetchCatch(c1, "getBalances"), st)
           ELSE IF Live(st.bal[c.acc], CACHE_TTL_BALANCES)
                THEN Stepped(BalancesReturned(c1, st.bal[c.acc].val, TRUE), st)
                ELSE Stepped([c1 EXCEPT !.pc = "getBalances"], st)
      [] c.pc = "getBalances" ->
           LET c1 == Invoke(c, "getBalances") IN
           IF ProviderFails(c, "getBalances")
           THEN Stepped(CachedFetchCatch(c1, "getBalances"), st)
           ELSE Stepped([c1 EXCEPT !.val = now, !.pc = "redis.set balances"], st)
      [] c.pc = "redis.set balances" ->
           LET c1 == RedisCall(c, "set") IN
           IF RedisFails(c, "set") THEN Stepped(CachedFetchCatch(c1, "getBalances"), st)
           ELSE Stepped(BalancesReturned([c1 EXCEPT !.writes = @ \cup {"bal"}], c.val, FALSE),
                        [st EXCEPT !.bal[c.acc] = [val |-> c.val, at |-> now]])
      [] OTHER ->
           LET c1 == Invoke(c, "getBalances") IN
           IF ProviderFails(c, "getBalances") THEN Stepped(FetchThrows(c1), st)
           ELSE Stepped(BalancesReturned(c1, now, FALSE), st)

\* lines 80-151, the await of line 97; functionMap.getSelectedKeacastAccounts
\* returns an error object instead of throwing (functionMap.js lines 648-653
\* and 719-727)
buildUserContext(c, st) ==
    Stepped([Invoke(c, "getSelectedKeacastAccounts") EXCEPT !.pc = "redis.get balances"], st)

\* lines 64-68: getUserContext returns the fresh context
FreshReturned(c) == [Returns(c) EXCEPT !.ctx = c.freshContext, !.cached = FALSE]

\* lines 156-171: two awaited redis.set calls in one try block, errors
\* swallowed. The argument new Date().toISOString() of line 165 is evaluated
\* when the second set is issued, in the continuation of the first (line 162);
\* the key is written, and its TTL starts, when that set takes effect
cacheUserContext(c, st) ==
    IF c.pc = "redis.set context"
    THEN LET c1 == RedisCall(c, "set") IN
         IF RedisFails(c, "set") THEN Stepped(FreshReturned(c1), st)
         ELSE Stepped([c1 EXCEPT !.writes = @ \cup {"ctx"}, !.lastUpdatedValue = now,
                                 !.pc = "redis.set lastUpdated"],
                      [st EXCEPT !.ctx[c.acc] = [val |-> c.freshContext, at |-> now]])
    ELSE LET c1 == RedisCall(c, "set") IN
         IF RedisFails(c, "set") THEN Stepped(FreshReturned(c1), st)
         ELSE Stepped(FreshReturned([c1 EXCEPT !.writes = @ \cup {"last"}]),
                      [st EXCEPT !.last = [val |-> c.lastUpdatedValue, at |-> now]])

\* lines 41-47: cachedContext && lastUpdated && ageMinutes < 30
IsFresh(cachedContext, lastUpdated) ==
    /\ cachedContext # NoCtxEntry
    /\ lastUpdated # NoEntry
    /\ now - lastUpdated.val < FreshMinutes

\* lines 31-75, one await of its own: the two redis.get
getUserContext(c, st) ==
    IF c.pc = "redis.get context"
    THEN LET c1 == RedisCall(c, "get") IN
         IF RedisFails(c, "get") THEN Stepped(GetUserContextCatch(c1), st)
         ELSE Stepped([c1 EXCEPT !.pc = "redis.get lastUpdated",
                                 !.cachedContext =
                                    RedisGet(st.ctx[c.acc], CACHE_TTL_USER_CONTEXT, NoCtxEntry)],
                      st)
    ELSE LET c1 == RedisCall(c, "get") IN
         IF RedisFails(c, "get") THEN Stepped(GetUserContextCatch(c1), st)
         ELSE IF IsFresh(c.cachedContext, RedisGet(st.last, CACHE_TTL_USER_CONTEXT, NoEntry))
              THEN Stepped([Returns(c1) EXCEPT !.ctx = c.cachedContext.val, !.cached = TRUE], st)
              ELSE Stepped([c1 EXCEPT !.pc = "redis.get userData"], st)

\* lines 254-256: the keys handed to redis.del
AccountKeys == {"ctx", "bal", "last"}

\* lines 252-263: one redis.del of the three keys, errors swallowed
invalidateAccountCache(c, st) ==
    LET c1 == RedisCall(c, "del") IN
    IF RedisFails(c, "del") THEN Stepped(Returns(c1), st)
    ELSE Stepped(Returns(c1),
                 [st EXCEPT !.ctx[c.acc] = IF "ctx" \in AccountKeys THEN NoCtxEntry ELSE @,
                            !.bal[c.acc] = IF "bal" \in AccountKeys THEN NoEntry ELSE @,
                            !.last = IF "last" \in AccountKeys THEN NoEntry ELSE @])

\* the keys of the user that redis.keys finds in the store
UserKeys(st) ==
    {<<"ctx", a>> : a \in {b \in Accounts : Live(st.ctx[b], CACHE_TTL_USER_CONTEXT)}}
      \cup {<<"bal", a>> : a \in {b \in Accounts : Live(st.bal[b], CACHE_TTL_BALANCES)}}
      \cup (IF Live(st.user, CACHE_TTL_USER_DATA) THEN {<<"user", "">>} ELSE {})
      \cup (IF Live(st.last, CACHE_TTL_USER_CONTEXT) THEN {<<"last", "">>} ELSE {})

\* line 237: if (keys.length > 0)
DelGuard(keys) == keys # {}

\* lines 232-247, one await: redis.keys('*userId*'), then redis.del of the
\* keys found when there are any; the count of the keys found is returned, and
\* 0 from the catch block
invalidateUserCache(c, st) ==
    IF c.pc = "redis.keys"
    THEN LET c1 == RedisCall(c, "get") IN
         IF RedisFails(c, "get") THEN Stepped([Returns(c1) EXCEPT !.val = 0], st)
         ELSE IF DelGuard(UserKeys(st))
              THEN Stepped([c1 EXCEPT !.keys = UserKeys(st), !.pc = "redis.del keys"], st)
              ELSE Stepped([Returns(c1) EXCEPT !.val = 0], st)
    ELSE LET c1 == RedisCall(c, "del") IN
         IF RedisFails(c, "del") THEN Stepped([Returns(c1) EXCEPT !.val = 0], st)
         ELSE Stepped([Returns(c1) EXCEPT !.val = Cardinality(c.keys)],
                      [st EXCEPT !.ctx = [a \in Accounts |->
                                            IF <<"ctx", a>> \in c.keys THEN NoCtxEntry ELSE @[a]],
                                 !.bal = [a \in Accounts |->
                                            IF <<"bal", a>> \in c.keys THEN NoEntry ELSE @[a]],
                                 !.user = IF <<"user", "">> \in c.keys THEN NoEntry ELSE @,
                                 !.last = IF <<"last", "">> \in c.keys THEN NoEntry ELSE @])

\* the awaits of each function
GetUserContextAwaits == {"redis.get context", "redis.get lastUpdated"}
GetUserDataCachedAwaits ==
    {"redis.get userData", "getUserData", "redis.set userData", "direct getUserData"}
BuildUserContextAwaits == {"getSelectedKeacastAccounts"}
GetBalancesCachedAwaits ==
    {"redis.get balances", "getBalances", "redis.set balances", "direct getBalances"}
CacheUserContextAwaits == {"redis.set context", "redis.set lastUpdated"}
InvalidateAccountCacheAwaits == {"redis.del account"}
InvalidateUserCacheAwaits == {"redis.keys", "redis.del keys"}

\* the next await of call c, made on store st
Await(c, st) ==
    CASE c.pc \in GetUserContextAwaits -> getUserContext(c, st)
      [] c.pc \in GetUserDataCachedAwaits -> getUserDataCached(c, st)
      [] c.pc \in BuildUserContextAwaits -> buildUserContext(c, st)
      [] c.pc \in GetBalancesCachedAwaits -> getBalancesCached(c, st)
      [] c.pc \in CacheUserContextAwaits -> cacheUserContext(c, st)
      [] c.pc \in InvalidateAccountCacheAwaits -> invalidateAccountCache(c, st)
      [] OTHER -> invalidateUserCache(c, st)

\* a call of op at its start
CallOf(op, acc, F) ==
    [IdleCall EXCEPT !.op = op, !.acc = acc, !.F = F, !.pc = FirstAwait(op), !.begun = now]

\* what a completed call leaves for the observer
Call(c) ==
    [op |-> c.op, acc |-> c.acc, at |-> now, begun |-> c.begun, ok |-> c.ok,
     cached |-> c.cached, ctx |-> c.ctx, val |-> c.val,
     pcalls |-> c.pcalls, rfailed |-> c.rfailed,
     provFault |-> c.F.who # "none", writes |-> c.writes,
     prev |-> IF c.acc \in Accounts THEN lastGet[c.acc] ELSE Never,
     after |-> IF cur.op = "invalidateAccountCache" /\ cur.acc = c.acc
               THEN (IF cur.rfailed THEN "failedInvalidate" ELSE "invalidate")
               ELSE "none",
     since |-> c.since, overlapped |-> c.overlapped]

Commit(st) ==
    /\ rCtx' = st.ctx /\ rBal' = st.bal /\ rUser' = st.user /\ rLast' = st.last

CacheStart ==
    /\ now = 0
    /\ rCtx = [a \in Accounts |-> NoCtxEntry] /\ rBal = [a \in Accounts |-> NoEntry]
    /\ rUser = NoEntry /\ rLast = NoEntry
    /\ cur = NoCall /\ lastGet = [a \in Accounts |-> Never]
CacheIdle == CacheStart

(***************************************************************************)
(* tools/functionMap.js: the paginated tools, over services/accounts.service *)
(* and services/transactions.service                                        *)
(*                                                                         *)
(* The database is a set of transaction rows [accountid, forecast_type,    *)
(* start] and a set of account rows [userid, accountid]; a date is a day   *)
(* number.  Rows returned by a list query are represented by their number. *)
(* The outcome of each query is part of the input: the list query returns  *)
(* rows, fails with MySQL's "Out of sort memory" error or fails otherwise; *)
(* the count query run beside it, and the one run by the fallback, return  *)
(* or fail.                                                                *)
(***************************************************************************)
SMART_LIMITS_transactions == 50
SMART_LIMITS_forecasts == 25
SMART_LIMITS_upcoming == 30
SMART_LIMITS_accounts == 20

MaxDay == 3
NoTotal == 0 - 1
Undefined == 0
TxPool ==
    {[accountid |-> "acct1", forecast_type |-> "F", start |-> 1],
     [accountid |-> "acct1", forecast_type |-> "RF", start |-> 2],
     [accountid |-> "acct1", forecast_type |-> "A", start |-> MaxDay],
     [accountid |-> "acct2", forecast_type |-> "F", start |-> 2]}
AccountPool ==
    {[userid |-> "user1", accountid |-> "acct1"],
     [userid |-> "user1", accountid |-> "acct2"],
     [userid |-> "user2", accountid |-> "acct3"]}
Databases == {[txs |-> t, accts |-> AccountPool \ a] :
                 t \in SUBSET TxPool, a \in {{}, {[userid |-> "user1", accountid |-> "acct2"]}}}

PagedTools == {"getUserAccounts", "getUserTransactions", "getRecurringForecasts",
               "getUpcomingTransactions"}
\* args of a tool call: "" and Undefined stand for an absent field
ToolArgs ==
    {[accountId |-> a, startDate |-> d[1], endDate |-> d[2], page |-> p, limit |-> l] :
        a \in {"", "acct1"}, d \in {<<Undefined, Undefined>>, <<1, 2>>, <<2, MaxDay>>},
        p \in {Undefined, 2}, l \in {Undefined, 1}}
ToolContexts == {[userId |-> "user1", accountId |-> a] : a \in {"", "acct1", "acct2"}}
ListOutcomes == {"rows", "sortMemory", "otherError"}
CountOutcomes == {"ok", "error"}
\* db.js line 18: pool.execute rejects a query one of whose parameters is
\* undefined before it reaches the server
BindFails(t, a, c) ==
    \/ t \in {"getRecurringForecasts", "getUpcomingTransactions"}
          /\ a.accountId = "" /\ c.accountId = ""
    \/ t = "getUpcomingTransactions" /\ (a.startDate = Undefined \/ a.endDate = Undefined)
PageInputs ==
    {in \in [tool : PagedTools, args : ToolArgs, ctx : ToolContexts, db : Databases,
             list : ListOutcomes, count : CountOutcomes, recount : CountOutcomes] :
        BindFails(in.tool, in.args, in.ctx) =>
            (in.list = "otherError" /\ in.count = "error" /\ in.recount = "error")}
NoPageInput == [tool |-> "none"]
NoPageResult == [threw |-> FALSE, nrows |-> 0, message |-> "none", total |-> NoTotal,
                 error |-> "none"]

\* accounts.service.js lines 12-17
getAccountsByUserIdCount(db, userId) ==
    Cardinality({r \in db.accts : r.userid = userId})

\* transactions.service.js lines 26-29 and 52-54: an absent date takes its default
\* (a year back, two years ahead), which spans every day of the model
StartOrDefault(d) == IF d = Undefined THEN 1 ELSE d
EndOrDefault(d) == IF d = Undefined THEN MaxDay ELSE d

\* transactions.service.js lines 51-65
getTransactionsByUserAndAccountCount(db, accountId, opts) ==
    Cardinality({r \in db.txs : /\ r.accountid = accountId
                                /\ r.start >= StartOrDefault(opts.startDate)
                                /\ r.start <= EndOrDefault(opts.endDate)})

\* transactions.service.js lines 98-102
getRecurringForecastsByAccountCount(db, accountId) ==
    Cardinality({r \in db.txs : r.accountid = accountId /\ r.forecast_type \in {"RF", "F"}})

\* transactions.service.js lines 139-148
getUpcomingByAccountAndRangeCount(db, accountId, startDate, endDate, forecastType) ==
    Cardinality({r \in db.txs : /\ r.accountid = accountId
                                /\ r.forecast_type = forecastType
                                /\ r.start >= startDate /\ r.start <= endDate})

\* transactions.service.js lines 170-191: total_transactions of the summary row
getTransactionSummary(db, accountId, opts) ==
    Cardinality({r \in db.txs : /\ r.accountid = accountId
                                /\ r.start >= StartOrDefault(opts.startDate)
                                /\ r.start <= EndOrDefault(opts.endDate)})

\* LIMIT limit OFFSET (page - 1) * limit over `total` matching rows
PageRows(total, page, limit) == Min(limit, Max(0, total - (page - 1) * limit))

\* args.page || 1 and args.limit || SMART_LIMITS.x
PageOf(args) == IF args.page = Undefined THEN 1 ELSE args.page
LimitOf(args, default) == IF args.limit = Undefined THEN default ELSE args.limit
\* argsAccountId || contextAccountId
AccountOf(in) == IF in.args.accountId # "" THEN in.args.accountId ELSE in.ctx.accountId

\* the errors with which Promise.all([list, count]) can reject: that of the
\* query that fails first
PaginatedErrors(in) ==
    (IF in.list = "rows" THEN {} ELSE {in.list})
    \cup (IF in.count = "ok" THEN {} ELSE {"otherError"})

Threw == [NoPageResult EXCEPT !.threw = TRUE]
PageOk(total, page, limit) ==
    [NoPageResult EXCEPT !.nrows = PageRows(total, page, limit), !.total = total,
                         !.message = IF page = 1 /\ total > limit THEN "more" ELSE "none"]

\* variant: the fallback counts without the date range
FallbackOpts_NoRange(args) == [startDate |-> Undefined, endDate |-> Undefined]

\* functionMap.js line 520: { startDate, endDate } handed to the fallback query
FallbackOpts(args) == [startDate |-> args.startDate, endDate |-> args.endDate]

\* the catch blocks (lines 453-465, 517-529, 553-565, 591-603):
\* error.message.includes('sort memory'), then the count query, else rethrow
PageCatch(in, e, total) ==
    IF e = "sortMemory"
    THEN IF in.recount = "ok"
         THEN [NoPageResult EXCEPT !.message = "memoryLimit", !.total = total,
                                   !.error = "Memory limit exceeded"]
         ELSE Threw
    ELSE Threw

\* one paginated tool: the paginated query and, when it rejects, the catch block
PagedTool(in, total, fallbackTotal, default, r) ==
    IF PaginatedErrors(in) = {}
    THEN r = PageOk(total, PageOf(in.args), LimitOf(in.args, default))
    ELSE \E e \in PaginatedErrors(in) : r = PageCatch(in, e, fallbackTotal)

PageIdle == pgIn = NoPageInput /\ pgOut = NoPageResult /\ pgPc = "idle"

(***************************************************************************)
(* createIntelligentTruncation and the tool content recorded by            *)
(* executeToolCalls, on serialized lengths                                  *)
(*                                                                         *)
(* A tool result is a record: type ("null", "string", "array", "object"),  *)
(* size = JSON.stringify(result ?? {}).length and, for an object, the      *)
(* serialized length of its parts: ess (the essential scalar fields, with  *)
(* their commas), tx[f] items of txLen characters under the f-th of the    *)
(* transaction fields (cfTransactions, plaidTransactions, upcoming,        *)
(* recents), nBal items under balances, cat (the value of categories) and  *)
(* catTruthy (whether that value is truthy), other (every other field,     *)
(* with its comma; a transaction field or balances that holds no array is  *)
(* one of them).  An item count of Absent is a field the result does not   *)
(* have, a count of 0 an empty array; cat = 0 is a result without          *)
(* categories.  The items carry only the fields the mapping keeps.         *)
(***************************************************************************)
KeepTransactions == 20
KeepBalances == 30
ReducedTransactions == 10
ReducedBalances == 15
\* maxSize - 50 characters are kept by the final fallback
FallbackCut == 50
\* length of '..."_truncated":true}'
FallbackSuffixLen == 21
\* length of '"_truncated":true' and of '"_originalSize":' before the digits
MarkerLen == 17
OriginalSizeKeyLen == 16
\* line 39
TransactionFields == <<"cfTransactions", "plaidTransactions", "upcoming", "recents">>
\* length of the key of a transaction field in the JSON text: the name in
\* quotes and the colon ('"cfTransactions":' 17, '"plaidTransactions":' 20,
\* '"upcoming":' 11, '"recents":' 10)
TxKeyLen(f) == Len(TransactionFields[f]) + 3
\* length of '"balances":' and of '"categories":'
BalKeyLen == 11
CatKeyLen == 13
\* serialized length of one mapped balance {date, amount, status}
BalItemLen == 60
NoSize == 0 - 1


\* JSON.stringify of an array of k items of itemLen characters; '[]' for k = 0
ListLen(k, itemLen) == 2 + k * itemLen + Max(0, k - 1)
\* slice(0, keep) of a list of k items
Sliced(k, keep) == IF k = Absent THEN Absent ELSE Min(k, keep)
\* a field holding such an array, with the comma after it; an empty array is
\* kept as '"name":[]' (lines 51 and 65: [] is truthy)
ListField(keyLen, k, itemLen) ==
    IF k = Absent THEN 0 ELSE keyLen + ListLen(k, itemLen) + 1
\* a field holding a value of valueLen characters, with the comma after it
ValueField(keyLen, valueLen) == IF valueLen = 0 THEN 0 ELSE keyLen + valueLen + 1

\* the transaction fields of an object, each with at most keep of its items
RECURSIVE TransactionFieldsLen(_, _, _, _)
TransactionFieldsLen(tx, txLen, keep, f) ==
    IF f > Len(TransactionFields) THEN 0
    ELSE ListField(TxKeyLen(f), Sliced(tx[f], keep), txLen)
           + TransactionFieldsLen(tx, txLen, keep, f + 1)
NoTransactions == [f \in 1..Len(TransactionFields) |-> Absent]
MostItems(tx) == Max(Max(tx[1], tx[2]), Max(tx[3], tx[4]))

\* JSON.stringify(data).length for an object with these parts: every field
\* it has, categories included whatever its value
ObjectSize(ess, tx, txLen, nBal, cat, other) ==
    LET fields == ess + TransactionFieldsLen(tx, txLen, MostItems(tx), 1)
                    + ListField(BalKeyLen, nBal, BalItemLen)
                    + ValueField(CatKeyLen, cat) + other
    IN  2 + Max(0, fields - 1)

ObjectResult(ess, tx, txLen, nBal, cat, catTruthy, other) ==
    [type |-> "object", size |-> ObjectSize(ess, tx, txLen, nBal, cat, other),
     ess |-> ess, tx |-> tx, txLen |-> txLen, nBal |-> nBal, cat |-> cat,
     catTruthy |-> catTruthy, other |-> other]
\* a result that is no plain object: it has none of the fields
ScalarResult(type, size) ==
    [type |-> type, size |-> size,
     ess |-> 0, tx |-> NoTransactions, txLen |-> 0, nBal |-> Absent, cat |-> 0,
     catTruthy |-> FALSE, other |-> 0]

\* the content recorded for a tool: its length, whether it carries the
\* _truncated marker, the _originalSize it carries, whether it still parses
ToolContent(len, truncated, originalSize, parses) ==
    [len |-> len, truncated |-> truncated, originalSize |-> originalSize, parses |-> parses]
NoToolContent == ToolContent(0, FALSE, NoSize, FALSE)

\* lines 31-32 and 95-99: substring(0, maxSize - 50) + '..."_truncated":true}'
SimpleTruncation(maxSize) ==
    ToolContent(maxSize - FallbackCut + FallbackSuffixLen, TRUE, NoSize, FALSE)

\* JSON.stringify(essential) with each of the four transaction lists cut to
\* keepTx items and the balances to keepBal items (lines 41-79, 85-93); a list
\* the result has is kept even when it is empty, categories only when its value
\* is truthy (line 74); _truncated and _originalSize are the last two keys
EssentialLen(d, keepTx, keepBal) ==
    2 + d.ess + TransactionFieldsLen(d.tx, d.txLen, keepTx, 1)
      + ListField(BalKeyLen, Sliced(d.nBal, keepBal), BalItemLen)
      + (IF d.catTruthy THEN ValueField(CatKeyLen, d.cat) ELSE 0)
      + MarkerLen + 1 + OriginalSizeKeyLen + Digits(d.size)

\* lines 29-102
createIntelligentTruncation(d, maxSize) ==
    IF d.type \in {"null", "string"}
    THEN IF d.size > maxSize THEN SimpleTruncation(maxSize)
         ELSE ToolContent(d.size, FALSE, NoSize, TRUE)
    ELSE LET first == EssentialLen(d, KeepTransactions, KeepBalances)
             reduced == IF first > maxSize
                        THEN EssentialLen(d, ReducedTransactions, ReducedBalances)
                        ELSE first
         IN  IF reduced > maxSize THEN SimpleTruncation(maxSize)
             ELSE ToolContent(reduced, TRUE, d.size, TRUE)

\* lines 409-414: JSON.stringify(result ?? {}), truncated above the ceiling
RecordedContent(d) ==
    IF d.size > ToolContentLimit THEN createIntelligentTruncation(d, ToolContentLimit)
    ELSE ToolContent(d.size, FALSE, NoSize, TRUE)

\* the plain chat request: no context field in the body, a completion service
\* whose failures are network errors and whose answers are well formed
PlainService == [failure |-> NoStatus, malformed |-> FALSE]
TurnIdle == loaded = <<>> /\ context = "absent" /\ service = PlainService
SessIdle == sessions = <<>> /\ reqs = <<>> /\ events = <<>>
TruncIdle == trIn = ScalarResult("null", 2) /\ trOut = NoToolContent /\ trPc = "idle"
NoKeyCall == [user |-> <<>>, keys |-> {}, count |-> 0, pc |-> "idle"]
KeyIdle == keyStore = {} /\ keyCall = NoKeyCall
RaceIdle == gets = <<>> /\ invs = <<>>

SanIdle == sanIn = <<>> /\ sanOut = <<>> /\ sanPc = "idle"
RetryIdle == retryCount = 0 /\ httpLog = <<>> /\ delays = <<>> /\ aoaiPc = "idle" /\ thrown = 0
ChatIdle ==
    /\ store = <<>> /\ pc = "idle" /\ message = EmptyContent /\ history = <<>>
    /\ messages = <<>> /\ requestSize = 0 /\ attempts = 0 /\ sent = <<>>
    /\ toolCalls = <<>> /\ toolResults = <<>> /\ result = NoResult /\ response = NoResponse

Init ==
    /\ store \in Histories
    /\ message \in NewMessages
    /\ pc = "load"
    /\ history = <<>> /\ messages = <<>> /\ requestSize = 0 /\ attempts = 0
    /\ sent = <<>> /\ toolCalls = <<>> /\ toolResults = <<>>
    /\ result = NoResult /\ response = NoResponse
    /\ SanIdle /\ RetryIdle /\ CacheIdle /\ PageIdle
    /\ TurnIdle /\ SessIdle /\ TruncIdle
    /\ KeyIdle /\ RaceIdle

\* lines 572-576: redis.get succeeds
LoadHistory ==
    /\ pc = "load" /\ message.len > 0
    /\ history' = store
    /\ loaded' = history'
    /\ pc' = "build"
    /\ UNCHANGED <<store, message, messages, requestSize, attempts, sent, toolCalls,
                   toolResults, result, response, context, service, sanVars, retryVars,
                   cacheVars, pageVars, sessVars, truncVars, keyVars, raceVars>>

\* lines 577-580: redis.get or JSON.parse throws
LoadHistoryFails ==
    /\ pc = "load" /\ message.len > 0
    /\ history' = <<>>
    /\ loaded' = history'
    /\ pc' = "build"
    /\ UNCHANGED <<store, message, messages, requestSize, attempts, sent, toolCalls,
                   toolResults, result, response, context, service, sanVars, retryVars,
                   cacheVars, pageVars, sessVars, truncVars, keyVars, raceVars>>

\* lines 551-554: no message in the body
MissingMessage ==
    /\ pc = "load" /\ message.len = 0
    /\ response' = [NoResponse EXCEPT !.status = 400, !.error = TRUE]
    /\ pc' = "done"
    /\ UNCHANGED <<store, message, history, messages, requestSize, attempts, sent,
                   toolCalls, toolResults, result, sanVars, retryVars, cacheVars, pageVars,
                   turnVars, sessVars, truncVars, keyVars, raceVars>>

\* lines 584, 596 and 873-899: createContextSummary throws a TypeError, which
\* carries neither code nor response and ends in the generic 500 answer
ContextSummaryThrows ==
    /\ pc = "build"
    /\ createContextSummary(extractContextFromBody(context)) = "TypeError"
    /\ response' = [NoResponse EXCEPT !.status = 500, !.error = TRUE]
    /\ pc' = "done"
    /\ UNCHANGED <<store, message, history, messages, requestSize, attempts, sent,
                   toolCalls, toolResults, result, sanVars, retryVars, cacheVars, pageVars,
                   turnVars, sessVars, truncVars, keyVars, raceVars>>

\* lines 584-770
Assemble ==
    /\ pc = "build"
    /\ createContextSummary(extractContextFromBody(context)) # "TypeError"
    /\ messages' = BuildMessages(history, message)
    /\ requestSize' = JsonSize(messages')
    /\ attempts' = 0
    /\ pc' = IF requestSize' > RequestSizeLimit THEN "evict" ELSE "first"
    /\ UNCHANGED <<store, message, history, sent, toolCalls, toolResults, result,
                   response, sanVars, retryVars, cacheVars, pageVars, turnVars,
                   sessVars, truncVars, keyVars, raceVars>>

\* lines 777-795: one iteration of the eviction loop
EvictStep ==
    /\ pc = "evict"
    /\ EvictCondition
    /\ history' = Tail(history)
    /\ messages' = RebuildMessages(messages, history')
    /\ IF JsonSize(messages') <= RequestSizeLimit
       THEN pc' = "first" /\ attempts' = attempts
       ELSE pc' = "evict" /\ attempts' = attempts + 1
    /\ UNCHANGED <<store, message, requestSize, sent, toolCalls, toolResults, result,
                   response, sanVars, retryVars, cacheVars, pageVars, turnVars,
                   sessVars, truncVars, keyVars, raceVars>>

\* the while condition is false: fall through to the completion call
EvictExit ==
    /\ pc = "evict"
    /\ ~EvictCondition
    /\ pc' = "first"
    /\ UNCHANGED <<store, message, history, messages, requestSize, attempts, sent,
                   toolCalls, toolResults, result, response, sanVars, retryVars, cacheVars, pageVars, turnVars,
                   sessVars, truncVars, keyVars, raceVars>>

\* lines 811-829, response without tool calls
FirstRespondsContent ==
    /\ pc = "first"
    /\ sent' = Append(sent, Request("first", messages, "auto", "ok"))
    /\ \E r \in Answers(TextCompletions(1)) : result' = Result(ContentOf(r), r, FALSE)
    /\ pc' = "save"
    /\ UNCHANGED <<store, message, history, messages, requestSize, attempts, toolCalls,
                   toolResults, response, sanVars, retryVars, cacheVars, pageVars, turnVars,
                   sessVars, truncVars, keyVars, raceVars>>

\* lines 811-825, response with tool calls
FirstRespondsToolCalls ==
    /\ pc = "first"
    /\ sent' = Append(sent, Request("first", messages, "auto", "ok"))
    /\ toolCalls' \in ChatCallLists
    /\ toolResults' = <<>>
    /\ pc' = "tools"
    /\ UNCHANGED <<store, message, history, messages, requestSize, attempts, result,
                   response, sanVars, retryVars, cacheVars, pageVars, turnVars,
                   sessVars, truncVars, keyVars, raceVars>>

\* line 811 throws: lines 830-831
FirstFails ==
    /\ pc = "first"
    /\ sent' = Append(sent, Request("first", messages, "auto", "failed"))
    /\ pc' = "fallback"
    /\ UNCHANGED <<store, message, history, messages, requestSize, attempts, toolCalls,
                   toolResults, result, response, sanVars, retryVars, cacheVars, pageVars, turnVars,
                   sessVars, truncVars, keyVars, raceVars>>

\* lines 833-835
FallbackResponds ==
    /\ pc = "fallback"
    /\ sent' = Append(sent, Request("fallback", messages, "none", "ok"))
    /\ \E r \in Answers(AnyCompletions(2)) : result' = Result(ContentOf(r), r, FALSE)
    /\ pc' = "save"
    /\ UNCHANGED <<store, message, history, messages, requestSize, attempts, toolCalls,
                   toolResults, response, sanVars, retryVars, cacheVars, pageVars, turnVars,
                   sessVars, truncVars, keyVars, raceVars>>

\* variant: no catch around the fallback request, the error reaches the catch of
\* chat, which answers an error without a status with the generic 500
FallbackFails_Rethrows ==
    /\ pc = "fallback"
    /\ sent' = Append(sent, Request("fallback", messages, "none", "failed"))
    /\ response' = [NoResponse EXCEPT !.status = 500, !.error = TRUE]
    /\ pc' = "done"
    /\ UNCHANGED <<store, message, history, messages, requestSize, attempts, toolCalls,
                   toolResults, result, sanVars, retryVars, cacheVars, pageVars, turnVars,
                   sessVars, truncVars, keyVars, raceVars>>

\* lines 836-839
FallbackFails ==
    /\ pc = "fallback"
    /\ sent' = Append(sent, Request("fallback", messages, "none", "failed"))
    /\ result' = Result(ErrorText, NoCompletion, TRUE)
    /\ pc' = "save"
    /\ UNCHANGED <<store, message, history, messages, requestSize, attempts, toolCalls,
                   toolResults, response, sanVars, retryVars, cacheVars, pageVars, turnVars,
                   sessVars, truncVars, keyVars, raceVars>>

\* lines 395-421: one iteration of the for loop of executeToolCalls
ExecuteTool ==
    /\ pc = "tools"
    /\ Len(toolResults) < Len(toolCalls)
    /\ toolResults' = Append(toolResults, ToolEntry(toolCalls[Len(toolResults) + 1]))
    /\ UNCHANGED <<store, pc, message, history, messages, requestSize, attempts, sent,
                   toolCalls, result, response, sanVars, retryVars, cacheVars, pageVars, turnVars,
                   sessVars, truncVars, keyVars, raceVars>>

\* lines 423-457: the loop is over, the summary turn is built
Summarize ==
    /\ pc = "tools"
    /\ Len(toolResults) = Len(toolCalls)
    /\ pc' = "final"
    /\ messages' = OriginalMessagesAfter(messages, toolResults)
    /\ UNCHANGED <<store, message, history, requestSize, attempts, sent,
                   toolCalls, toolResults, result, response, sanVars, retryVars, cacheVars, pageVars, turnVars,
                   sessVars, truncVars, keyVars, raceVars>>

\* lines 460-481: the final request answers; only the content of the response is read
FinalResponds ==
    /\ pc = "final"
    /\ sent' = Append(sent, Request("final", FinalMessages(messages, toolResults),
                                    FinalToolChoice, "ok"))
    /\ \E r \in Answers(AnyCompletions(3)) : result' = Result(ContentOf(r), r, FALSE)
    /\ pc' = "save"
    /\ UNCHANGED <<store, message, history, messages, requestSize, attempts, toolCalls,
                   toolResults, response, sanVars, retryVars, cacheVars, pageVars, turnVars,
                   sessVars, truncVars, keyVars, raceVars>>

\* lines 482-541: the final request throws
FinalFails ==
    /\ pc = "final"
    /\ sent' = Append(sent, Request("final", FinalMessages(messages, toolResults),
                                    FinalToolChoice, "failed"))
    /\ result' = Result(SynthesizedAnswer(toolResults), NoCompletion, FALSE)
    /\ pc' = "save"
    /\ UNCHANGED <<store, message, history, messages, requestSize, attempts, toolCalls,
                   toolResults, response, sanVars, retryVars, cacheVars, pageVars, turnVars,
                   sessVars, truncVars, keyVars, raceVars>>

\* lines 848-871, redis.set succeeds
SaveAndRespond ==
    /\ pc = "save"
    /\ LET updatedHistory == UpdatedHistory(history, message, FinalText(result)) IN
         /\ store' = updatedHistory
         /\ response' = [status |-> 200, body |-> FinalText(result),
                         memoryUsed |-> Len(updatedHistory), error |-> result.error]
    /\ pc' = "done"
    /\ UNCHANGED <<message, history, messages, requestSize, attempts, sent, toolCalls,
                   toolResults, result, sanVars, retryVars, cacheVars, pageVars, turnVars,
                   sessVars, truncVars, keyVars, raceVars>>

\* lines 858-871, redis.set throws
SaveFailsAndRespond ==
    /\ pc = "save"
    /\ LET updatedHistory == UpdatedHistory(history, message, FinalText(result)) IN
         response' = [status |-> 200, body |-> FinalText(result),
                      memoryUsed |-> Len(updatedHistory), error |-> result.error]
    /\ pc' = "done"
    /\ UNCHANGED <<store, message, history, messages, requestSize, attempts, sent,
                   toolCalls, toolResults, result, sanVars, retryVars, cacheVars, pageVars, turnVars,
                   sessVars, truncVars, keyVars, raceVars>>

Next ==
    \/ LoadHistory \/ LoadHistoryFails \/ Assemble \/ EvictStep \/ EvictExit
    \/ FirstRespondsContent \/ FirstRespondsToolCalls \/ FirstFails
    \/ FallbackResponds \/ FallbackFails
    \/ ExecuteTool \/ Summarize \/ FinalResponds \/ FinalFails
    \/ SaveAndRespond \/ SaveFailsAndRespond

Spec == Init /\ [][Next]_vars

(***************************************************************************)
(* executeToolCalls called on its own                                       *)
(***************************************************************************)
InitTools ==
    /\ store = <<>> /\ history = <<>>
    /\ message \in NewMessages
    /\ messages = BuildMessages(<<>>, message)
    /\ requestSize = JsonSize(messages) /\ attempts = 0
    /\ sent = <<Request("first", messages, "auto", "ok")>>
    /\ toolCalls \in NonEmptySeqs(ToolCallKinds, MaxToolCalls)
    /\ toolResults = <<>>
    /\ pc = "tools"
    /\ result = NoResult /\ response = NoResponse
    /\ SanIdle /\ RetryIdle /\ CacheIdle /\ PageIdle
    /\ TurnIdle /\ SessIdle /\ TruncIdle
    /\ KeyIdle /\ RaceIdle

NextTools == ExecuteTool \/ Summarize \/ FinalResponds \/ FinalFails

SpecTools == InitTools /\ [][NextTools]_vars

(***************************************************************************)
(* one chat turn on a session the handlers wrote, with every kind of body   *)
(* and of completion service                                                *)
(***************************************************************************)
\* stored sessions: empty, one small turn, a full window of long messages
TurnStores == {<<>>, KindSeq(<<"u", "a">>), Bulk(MAX_MEMORY)}
\* req.body.message: absent or empty, short, long
TurnMessages == {EmptyContent} \cup NewMessages
TurnFailures == {401, 429, NoStatus}

InitTurn ==
    /\ store \in TurnStores
    /\ message \in TurnMessages
    /\ context \in ContextKinds
    /\ service \in [failure : TurnFailures, malformed : BOOLEAN]
    /\ loaded = <<>>
    /\ pc = "load"
    /\ history = <<>> /\ messages = <<>> /\ requestSize = 0 /\ attempts = 0
    /\ sent = <<>> /\ toolCalls = <<>> /\ toolResults = <<>>
    /\ result = NoResult /\ response = NoResponse
    /\ SanIdle /\ RetryIdle /\ CacheIdle /\ PageIdle /\ SessIdle /\ TruncIdle
    /\ KeyIdle /\ RaceIdle

NextTurn == MissingMessage \/ ContextSummaryThrows \/ Next

SpecTurn == InitTurn /\ [][NextTurn]_vars

(***************************************************************************)
(* the session store under a series of requests                             *)
(*                                                                         *)
(* reqs is the workload: the requests the clients send, in order.  A       *)
(* request names its endpoint (chat, summarize, clearHistory,               *)
(* clearSessionById, repairSession; "expire" stands for MEMORY_TTL running *)
(* out), where it carries its session id,                                  *)
(* the one thing that goes wrong while it is served (fault), and whether   *)
(* the client sends it only after the previous response (waits).  A        *)
(* handler takes one step per await: chat and summarize load, work up to   *)
(* the answer, save and respond; clearHistory gets and deletes;            *)
(* repairSession gets and, when it removed something, sets;                *)
(* clearSessionById deletes.  Steps of requests that do not wait for each  *)
(* other interleave.                                                       *)
(***************************************************************************)
MaxRequests == 2
\* length of the system prompt of analyzeTransactions
SummarizeSystemLen == 2555
WelcomeText == Content("welcome", 0, 113)

\* buildSessionKey: body, query, x-session-id header, authenticated user, in
\* this order; an absent source is ""
SessionIdOf(req) ==
    IF req.body # "" THEN req.body
    ELSE IF req.query # "" THEN req.query
    ELSE IF req.header # "" THEN req.header
    ELSE IF req.user # "" THEN req.user
    ELSE "anonymous"

buildSessionKey(req) == <<"session", SessionIdOf(req)>>

\* the key a request works on: clearSessionById builds it from the route
\* parameter (line 1569), the other handlers call buildSessionKey
RequestKey(req) ==
    IF req.kind = "clearSessionById" THEN <<"session", req.params>>
    ELSE buildSessionKey(req)

\* the redis keys of the model: a prefix and an id
RequestKinds == {"chat", "summarize", "clearHistory", "clearSessionById", "repairSession",
                 "expire"}
SessionKeys == {<<prefix, id>> : prefix \in {"session"} \cup RequestKinds,
                                 id \in {"s1", "s2", "anonymous"}}
\* the store at the start: one session, left behind by earlier turns
StoreWith(h) == [k \in SessionKeys |-> IF k = <<"session", "s1">> THEN h ELSE <<>>]

IdSource(body, query, header, user) ==
    [body |-> body, query |-> query, header |-> header, user |-> user, params |-> ""]
InBody(id) == IdSource(id, "", "", "")
InHeader(id) == IdSource("", "", id, "u9")
\* DELETE /clear-session/:sessionId
InParams(id) == [IdSource("", "", "", "") EXCEPT !.params = id]

Faults_Session == {"none", "load", "save", "upstream", "noUserData"}

\* a request as it arrives, and the locals of its handler
NewRequest(kind, src, len, fault, waits) ==
    [kind |-> kind, body |-> src.body, query |-> src.query, header |-> src.header,
     user |-> src.user, params |-> src.params, len |-> len, fault |-> fault, waits |-> waits,
     pc |-> "new", loaded |-> <<>>, history |-> <<>>, sent |-> <<>>,
     answer |-> EmptyContent, error |-> FALSE, status |-> 0, pair |-> <<>>]

\* the new user message of request i
ChatMessage(r, i) == Content("new", i, r.len)
\* the user message analyzeTransactions sends (lines 975-983) and the one it
\* stores (lines 1023-1025): two different texts around the same transactions
SummarizeSent(r, i) == Plain("user", Content("transactionsSent", i, r.len))
SummarizeStored(r, i) == Plain("user", Content("transactionsStored", i, r.len))
SummarizeSystem == Plain("system", Content("summarizeSystem", 0, SummarizeSystemLen))

\* variant: the error of the history load reaches the outer catch
HistoryLoadCatch_Rethrow(r) == [r EXCEPT !.pc = "done", !.status = 503, !.error = TRUE]

\* lines 577-580 and 923-926: the catch around the history load
HistoryLoadCatch(r) == [r EXCEPT !.pc = "process", !.loaded = <<>>, !.history = <<>>]

\* lines 572-576 and 918-922
HistoryLoad(r, stored) ==
    IF r.fault = "load" THEN HistoryLoadCatch(r)
    ELSE [r EXCEPT !.pc = "process", !.loaded = stored, !.history = stored]

\* variant: the handler extends what the store holds when it saves
HistoryToSave_Reread(r, stored) == stored

\* line 850: the local history is what the saved history extends
HistoryToSave(r, stored) == r.history

\* chat, lines 582-847 at the granularity of the session: the list is built,
\* the eviction loop runs, the completion flow produces the text of the turn
\* (the apology text when both completion requests fail)
ChatWork(r, i) ==
    LET built == BuildMessages(r.history, ChatMessage(r, i))
        left == IF JsonSize(built) > RequestSizeLimit
                THEN EvictLoop(r.history, built, JsonSize(built), 0)
                ELSE [history |-> r.history, messages |-> built]
    IN  [r EXCEPT !.pc = "save", !.history = left.history, !.sent = left.messages,
                  !.answer = IF r.fault = "upstream" THEN ErrorText ELSE Answer(i),
                  !.error = (r.fault = "upstream")]

\* analyzeTransactions, lines 928-1017: userData.firstname throws a TypeError
\* when the body carries no userData, and the outer catch answers 500
SummarizeWork(r, i) ==
    IF r.fault = "noUserData"
    THEN [r EXCEPT !.pc = "done", !.status = 500, !.error = TRUE]
    ELSE [r EXCEPT !.pc = "save",
                   !.sent = <<SummarizeSystem>> \o sanitizeMessageArray(r.history)
                              \o <<SummarizeSent(r, i)>>,
                   !.answer = IF r.fault = "upstream" THEN ErrorText ELSE Answer(i),
                   !.error = (r.fault = "upstream")]

\* lines 848-853 and 1019-1026: the history handed to redis.set
ChatUpdated(r, i, stored) ==
    UpdatedHistory(HistoryToSave(r, stored), ChatMessage(r, i), r.answer)
SummarizeUpdated(r, i, stored) ==
    SliceLast(sanitizeMessageArray(HistoryToSave(r, stored))
                \o <<SummarizeStored(r, i), Plain("assistant", r.answer)>>, MAX_MEMORY)

StoreEvent(op, key, by, ok) == [op |-> op, key |-> key, by |-> by, ok |-> ok]

\* the client sends request i
Arrived(i) == IF i = 1 \/ ~reqs[i].waits THEN TRUE ELSE reqs[i - 1].pc = "done"

SessionsUnchanged == UNCHANGED <<chatVars, sanVars, retryVars, cacheVars, pageVars, turnVars,
                                 truncVars, keyVars, raceVars>>

\* chat lines 571-580, analyzeTransactions lines 917-926
LoadStep(i, kind) ==
    /\ reqs[i].kind = kind /\ reqs[i].pc = "new" /\ Arrived(i)
    /\ reqs' = [reqs EXCEPT ![i] = HistoryLoad(@, sessions[buildSessionKey(@)])]
    /\ events' = Append(events, StoreEvent("get", buildSessionKey(reqs[i]), i,
                                           reqs[i].fault # "load"))
    /\ UNCHANGED sessions
    /\ SessionsUnchanged

ChatLoad == \E i \in 1..Len(reqs) : LoadStep(i, "chat")
SummarizeLoad == \E i \in 1..Len(reqs) : LoadStep(i, "summarize")

ChatProcess ==
    \E i \in 1..Len(reqs) :
        /\ reqs[i].kind = "chat" /\ reqs[i].pc = "process"
        /\ reqs' = [reqs EXCEPT ![i] = ChatWork(@, i)]
        /\ UNCHANGED <<sessions, events>>
        /\ SessionsUnchanged

SummarizeProcess ==
    \E i \in 1..Len(reqs) :
        /\ reqs[i].kind = "summarize" /\ reqs[i].pc = "process"
        /\ reqs' = [reqs EXCEPT ![i] = SummarizeWork(@, i)]
        /\ UNCHANGED <<sessions, events>>
        /\ SessionsUnchanged

\* redis.set in its try/catch, then res.json: lines 855-871 and 1029-1037
SaveStep(i, updated) ==
    LET key == buildSessionKey(reqs[i]) IN
    /\ reqs[i].pc = "save"
    /\ sessions' = IF reqs[i].fault = "save" THEN sessions
                   ELSE [sessions EXCEPT ![key] = updated]
    /\ events' = Append(events, StoreEvent("set", key, i, reqs[i].fault # "save"))
    /\ reqs' = [reqs EXCEPT ![i].pc = "done", ![i].status = 200,
                            ![i].pair = SliceLast(updated, 2)]
    /\ SessionsUnchanged

ChatSave ==
    \E i \in 1..Len(reqs) :
        /\ reqs[i].kind = "chat"
        /\ SaveStep(i, ChatUpdated(reqs[i], i, sessions[buildSessionKey(reqs[i])]))

SummarizeSave ==
    \E i \in 1..Len(reqs) :
        /\ reqs[i].kind = "summarize"
        /\ SaveStep(i, SummarizeUpdated(reqs[i], i, sessions[buildSessionKey(reqs[i])]))

\* a handler answers with an error status
Failed(r, status) == [r EXCEPT !.pc = "done", !.status = status, !.error = TRUE]

\* redis.del in its try/catch, then the response
DeleteStep(i, key) ==
    /\ sessions' = IF reqs[i].fault = "save" THEN sessions
                   ELSE [sessions EXCEPT ![key] = <<>>]
    /\ events' = Append(events, StoreEvent("del", key, i, reqs[i].fault # "save"))
    /\ reqs' = [reqs EXCEPT ![i] = IF @.fault = "save" THEN Failed(@, 500)
                                   ELSE [@ EXCEPT !.pc = "done", !.status = 200]]
    /\ SessionsUnchanged

\* clearHistory, lines 1490-1535, an await at a time: redis.get (line 1501),
\* whose result is only logged and whose error reaches the outer catch (lines
\* 1531-1534); then redis.del (line 1505) in its try/catch
ClearHistory ==
    \E i \in 1..Len(reqs) :
        /\ reqs[i].kind = "clearHistory"
        /\ IF reqs[i].pc = "new"
           THEN /\ Arrived(i)
                /\ events' = Append(events, StoreEvent("get", buildSessionKey(reqs[i]), i,
                                                       reqs[i].fault # "load"))
                /\ reqs' = [reqs EXCEPT ![i] = IF @.fault = "load" THEN Failed(@, 500)
                                               ELSE [@ EXCEPT !.pc = "del"]]
                /\ UNCHANGED sessions
                /\ SessionsUnchanged
           ELSE /\ reqs[i].pc = "del"
                /\ DeleteStep(i, buildSessionKey(reqs[i]))

\* clearSessionById, lines 1562-1589: no session id answers 400; else one
\* redis.del of session:<id>
ClearSessionById ==
    \E i \in 1..Len(reqs) :
        /\ reqs[i].kind = "clearSessionById" /\ reqs[i].pc = "new" /\ Arrived(i)
        /\ IF reqs[i].params = ""
           THEN /\ reqs' = [reqs EXCEPT ![i] = Failed(@, 400)]
                /\ UNCHANGED <<sessions, events>>
                /\ SessionsUnchanged
           ELSE DeleteStep(i, RequestKey(reqs[i]))

\* the key runs out of its MEMORY_TTL
Expire ==
    \E i \in 1..Len(reqs) :
        /\ reqs[i].kind = "expire" /\ reqs[i].pc = "new" /\ Arrived(i)
        /\ sessions' = [sessions EXCEPT ![buildSessionKey(reqs[i])] = <<>>]
        /\ events' = Append(events, StoreEvent("expire", buildSessionKey(reqs[i]), i, TRUE))
        /\ reqs' = [reqs EXCEPT ![i].pc = "done"]
        /\ SessionsUnchanged

\* variant: repairSession writes the sanitized history back in every case
RepairWrites_Always(h) == TRUE

\* line 1612: originalLength !== newLength
RepairWrites(h) == Len(h) # Len(sanitizeMessageArray(h))

\* repairSession after its redis.get (lines 1598-1612 and 1624-1632): nothing
\* stored answers "already clean"; else the history is sanitized, and when
\* its length did not change the answer is "already clean" too; else the
\* handler goes on to write
RepairRead(r, history_) ==
    IF r.fault = "load" THEN Failed(r, 500)
    ELSE IF history_ # <<>> /\ RepairWrites(history_)
    THEN [r EXCEPT !.pc = "set", !.loaded = history_,
                   !.history = sanitizeMessageArray(history_)]
    ELSE [r EXCEPT !.pc = "done", !.status = 200, !.loaded = history_]

\* repairSession, lines 1592-1641, an await at a time: redis.get (line 1598);
\* then redis.set (line 1614) of the history sanitized after the get, with a
\* new MEMORY_TTL; a redis error answers 500 (lines 1633-1636)
RepairSession ==
    \E i \in 1..Len(reqs) :
        LET key == buildSessionKey(reqs[i]) IN
        /\ reqs[i].kind = "repairSession"
        /\ IF reqs[i].pc = "new"
           THEN /\ Arrived(i)
                /\ events' = Append(events, StoreEvent("get", key, i, reqs[i].fault # "load"))
                /\ reqs' = [reqs EXCEPT ![i] = RepairRead(@, sessions[key])]
                /\ UNCHANGED sessions
                /\ SessionsUnchanged
           ELSE /\ reqs[i].pc = "set"
                /\ sessions' = IF reqs[i].fault = "save" THEN sessions
                               ELSE [sessions EXCEPT ![key] = reqs[i].history]
                /\ events' = Append(events, StoreEvent("set", key, i, reqs[i].fault # "save"))
                /\ reqs' = [reqs EXCEPT ![i] = IF @.fault = "save" THEN Failed(@, 500)
                                               ELSE [@ EXCEPT !.pc = "done", !.status = 200]]
                /\ SessionsUnchanged

\* sessions the handlers left behind: none, two turns, a full window
SessionStarts ==
    {<<>>, KindSeq(<<"u", "a", "u", "a">>),
     [k \in 1..MAX_MEMORY |-> KindMsg(IF k % 2 = 1 THEN "u" ELSE "a", k)]}

\* what a summarize request carries (the transactions make its message long)
\* and what a chat request carries
ChatRequests(waits) ==
    {NewRequest("chat", src, SmallLen, "none", waits) :
        src \in {InBody("s1"), InHeader("s1"), InBody("s2")}}
      \cup {NewRequest("chat", InBody("s1"), HugeLen, "none", waits)}
      \cup {NewRequest("chat", InBody("s1"), SmallLen, f, waits) :
              f \in {"load", "save", "upstream"}}
SummarizeRequests ==
    {NewRequest("summarize", src, BulkLen, "none", TRUE) :
        src \in {InBody("s1"), InHeader("s1")}}
      \cup {NewRequest("summarize", InBody("s1"), BulkLen, f, TRUE) :
              f \in {"load", "save", "upstream", "noUserData"}}
SessionEnds ==
    {NewRequest(k, InBody("s1"), 0, "none", TRUE) : k \in {"clearHistory", "expire"}}
      \cup {NewRequest("clearSessionById", InParams("s1"), 0, "none", TRUE)}

SeriesOf(S, n) == {w \in SeqsUpTo(S, n) : Len(w) = n}

InitSession ==
    /\ sessions \in {StoreWith(h) : h \in SessionStarts}
    /\ reqs \in SeriesOf(ChatRequests(TRUE) \cup SummarizeRequests \cup SessionEnds,
                         MaxRequests)
    /\ events = <<>>
    /\ ChatIdle /\ SanIdle /\ RetryIdle /\ CacheIdle /\ PageIdle /\ TurnIdle /\ TruncIdle
    /\ KeyIdle /\ RaceIdle

NextSession ==
    \/ ChatLoad \/ ChatProcess \/ ChatSave
    \/ SummarizeLoad \/ SummarizeProcess \/ SummarizeSave
    \/ ClearHistory \/ ClearSessionById \/ Expire

SpecSession == InitSession /\ [][NextSession]_vars

\* repairSession on a session of any content, with the store working or
\* failing, alone or beside a request on the same session that does not wait
\* for it
RepairStores == {KindSeq(ks) : ks \in SeqsUpTo(SanKinds, MaxSanLen)}
RepairRequests == {NewRequest("repairSession", InBody("s1"), 0, f, TRUE) :
                      f \in {"none", "load", "save"}}
BesideRepair ==
    {NewRequest("chat", InBody("s1"), SmallLen, "none", FALSE),
     NewRequest("clearHistory", InBody("s1"), 0, "none", FALSE),
     NewRequest("clearSessionById", InParams("s1"), 0, "none", FALSE)}

InitRepair ==
    /\ sessions \in {StoreWith(h) : h \in RepairStores}
    /\ reqs \in {<<r>> : r \in RepairRequests}
                \cup {<<NewRequest("repairSession", InBody("s1"), 0, "none", TRUE), o>> :
                        o \in BesideRepair}
    /\ events = <<>>
    /\ ChatIdle /\ SanIdle /\ RetryIdle /\ CacheIdle /\ PageIdle /\ TurnIdle /\ TruncIdle
    /\ KeyIdle /\ RaceIdle

NextRepair ==
    \/ RepairSession
    \/ ChatLoad \/ ChatProcess \/ ChatSave
    \/ ClearHistory \/ ClearSessionById

SpecRepair == InitRepair /\ [][NextRepair]_vars

\* the store from its empty start, under requests that arrive one after the
\* other: each is sent when the one before it has been answered
MaxOps == 7
StoreOps ==
    {NewRequest("chat", InBody("s1"), SmallLen, "none", TRUE),
     NewRequest("summarize", InBody("s1"), BulkLen, "none", TRUE),
     NewRequest("repairSession", InBody("s1"), 0, "none", TRUE),
     NewRequest("clearHistory", InBody("s1"), 0, "none", TRUE),
     NewRequest("clearSessionById", InParams("s1"), 0, "none", TRUE)}

Arrive ==
    /\ Len(reqs) < MaxOps
    /\ reqs # <<>> => Last(reqs).pc = "done"
    /\ \E r \in StoreOps : reqs' = Append(reqs, r)
    /\ UNCHANGED <<sessions, events>>
    /\ SessionsUnchanged

InitStore ==
    /\ sessions = StoreWith(<<>>)
    /\ reqs = <<>>
    /\ events = <<>>
    /\ ChatIdle /\ SanIdle /\ RetryIdle /\ CacheIdle /\ PageIdle /\ TurnIdle /\ TruncIdle
    /\ KeyIdle /\ RaceIdle

NextStore ==
    \/ Arrive
    \/ ChatLoad \/ ChatProcess \/ ChatSave
    \/ SummarizeLoad \/ SummarizeProcess \/ SummarizeSave
    \/ RepairSession
    \/ ClearHistory \/ ClearSessionById

SpecStore == InitStore /\ [][NextStore]_vars

\* two chat requests sent without waiting for each other
InitRace ==
    /\ sessions \in {StoreWith(h) : h \in SessionStarts}
    /\ reqs \in {<<a, b>> : a \in ChatRequests(FALSE), b \in ChatRequests(FALSE)}
    /\ events = <<>>
    /\ ChatIdle /\ SanIdle /\ RetryIdle /\ CacheIdle /\ PageIdle /\ TurnIdle /\ TruncIdle
    /\ KeyIdle /\ RaceIdle

NextRace == ChatLoad \/ ChatProcess \/ ChatSave

SpecRace == InitRace /\ [][NextRace]_vars

(***************************************************************************)
(* sanitizeMessageArray on an arbitrary array                               *)
(***************************************************************************)
InitSanitize ==
    /\ sanIn \in {KindSeq(ks) : ks \in SeqsUpTo(SanKinds, MaxSanLen)}
    /\ sanOut = <<>>
    /\ sanPc = "in"
    /\ ChatIdle /\ RetryIdle /\ CacheIdle /\ PageIdle
    /\ TurnIdle /\ SessIdle /\ TruncIdle
    /\ KeyIdle /\ RaceIdle

\* sanitizeMessageArray(messages)
Sanitize ==
    /\ sanPc = "in"
    /\ sanOut' = <<sanitizeMessageArray(sanIn)>>
    /\ sanPc' = "once"
    /\ UNCHANGED <<sanIn, chatVars, retryVars, cacheVars, pageVars, turnVars,
                   sessVars, truncVars, keyVars, raceVars>>

\* sanitizeMessageArray applied to its own output
SanitizeAgain ==
    /\ sanPc = "once"
    /\ sanOut' = Append(sanOut, sanitizeMessageArray(sanOut[1]))
    /\ sanPc' = "twice"
    /\ UNCHANGED <<sanIn, chatVars, retryVars, cacheVars, pageVars, turnVars,
                   sessVars, truncVars, keyVars, raceVars>>

NextSanitize == Sanitize \/ SanitizeAgain

SpecSanitize == InitSanitize /\ [][NextSanitize]_vars

(***************************************************************************)
(* callAOAI                                                                 *)
(***************************************************************************)
\* HTTP status of a response; NoStatus stands for an error without a response
\* (timeout, network error), where error.response?.status is undefined
FailureStatuses == {429, 500, 503, 400, 401, NoStatus}
\* the retry-after header of a 429 response: NoHeader when absent
NoHeader == 0 - 1
RetryAfterHeaders == {NoHeader, 0, 7}

\* variant: off-by-one retry ceiling
CanRetry_Inclusive(rc) == rc <= MAX_RETRIES

CanRetry(rc) == rc < MAX_RETRIES

RECURSIVE Pow2(_)
Pow2(n) == IF n = 0 THEN 1 ELSE 2 * Pow2(n - 1)

\* variant: the retry condition of line 54 taken from 400 upwards
IsServerError_From400(s) == s >= 400

\* line 54: error.response?.status >= 500
IsServerError(s) == s >= 500

\* variant: the recursive call passes retryCount on unchanged
NextRetryCount_Same(rc) == rc

\* lines 50 and 59: callAOAI(body, retryCount + 1)
NextRetryCount(rc) == rc + 1

\* variant: linear instead of exponential backoff
BackoffDelay_Linear(rc) == RETRY_DELAY * (rc + 1)

\* line 46
RetryAfterDelay(header) == IF header = NoHeader THEN RETRY_DELAY ELSE header
\* line 55
BackoffDelay(rc) == RETRY_DELAY * Pow2(rc)

InitRetry ==
    /\ retryCount = 0 /\ httpLog = <<>> /\ delays = <<>> /\ aoaiPc = "call" /\ thrown = 0
    /\ ChatIdle /\ SanIdle /\ CacheIdle /\ PageIdle
    /\ TurnIdle /\ SessIdle /\ TruncIdle
    /\ KeyIdle /\ RaceIdle

\* lines 28-37: axios.post resolves
AttemptSucceeds ==
    /\ aoaiPc = "call"
    /\ httpLog' = Append(httpLog, 200)
    /\ aoaiPc' = "returned"
    /\ UNCHANGED <<retryCount, delays, thrown, chatVars, sanVars, cacheVars, pageVars, turnVars,
                   sessVars, truncVars, keyVars, raceVars>>

\* lines 45-51: 429 and retries left
AttemptRateLimited ==
    /\ aoaiPc = "call"
    /\ CanRetry(retryCount)
    /\ httpLog' = Append(httpLog, 429)
    /\ \E h \in RetryAfterHeaders : delays' = Append(delays, RetryAfterDelay(h))
    /\ retryCount' = NextRetryCount(retryCount)
    /\ UNCHANGED <<aoaiPc, thrown, chatVars, sanVars, cacheVars, pageVars, turnVars,
                   sessVars, truncVars, keyVars, raceVars>>

\* lines 54-60: 5xx and retries left
AttemptServerError ==
    /\ aoaiPc = "call"
    /\ CanRetry(retryCount)
    /\ \E s \in {x \in FailureStatuses : IsServerError(x)} : httpLog' = Append(httpLog, s)
    /\ delays' = Append(delays, BackoffDelay(retryCount))
    /\ retryCount' = NextRetryCount(retryCount)
    /\ UNCHANGED <<aoaiPc, thrown, chatVars, sanVars, cacheVars, pageVars, turnVars,
                   sessVars, truncVars, keyVars, raceVars>>

\* line 63: any other failure, or no retries left
AttemptThrows ==
    /\ aoaiPc = "call"
    /\ \E s \in FailureStatuses :
         /\ ~((s = 429 \/ IsServerError(s)) /\ CanRetry(retryCount))
         /\ httpLog' = Append(httpLog, s)
         /\ thrown' = s
    /\ aoaiPc' = "thrown"
    /\ UNCHANGED <<retryCount, delays, chatVars, sanVars, cacheVars, pageVars, turnVars,
                   sessVars, truncVars, keyVars, raceVars>>

NextRetry == AttemptSucceeds \/ AttemptRateLimited \/ AttemptServerError \/ AttemptThrows

SpecRetry == InitRetry /\ [][NextRetry]_vars

(***************************************************************************)
(* the redis key space: CACHE_KEYS, buildSessionKey and the pattern of     *)
(* invalidateUserCache.  A key is the sequence of its characters, an id a  *)
(* sequence of digits.  The store is the set of the keys present; each key *)
(* is kept with its purpose and the user it was made for.                  *)
(***************************************************************************)
MaxKeys == 3
UserIds == {<<"1">>, <<"1", "2">>, <<"5">>}
AccountIds == {<<"7">>, <<"1">>}

\* contextCache.service.js lines 17-24
CACHE_KEYS_userContext(userId, accountId) ==
    <<"c", "o", "n", "t", "e", "x", "t", ":", "u", "s", "e", "r", ":">> \o userId
        \o <<":", "a", "c", "c", "o", "u", "n", "t", ":">> \o accountId
CACHE_KEYS_userData(userId) ==
    <<"u", "s", "e", "r", "d", "a", "t", "a", ":">> \o userId
CACHE_KEYS_balances(accountId, userId) ==
    <<"b", "a", "l", "a", "n", "c", "e", "s", ":">> \o accountId \o <<":">> \o userId
CACHE_KEYS_lastUpdated(userId) ==
    <<"l", "a", "s", "t", "u", "p", "d", "a", "t", "e", "d", ":">> \o userId
\* openaiController.js line 19: `session:${sessionId}`
SessionKeyText(sessionId) == <<"s", "e", "s", "s", "i", "o", "n", ":">> \o sessionId

StoredKey(purpose, user, text) == [purpose |-> purpose, user |-> user, text |-> text]
\* the keys the services can have written: the cache keys of every user and
\* account, and the session of a user whose requests carry no session id
\* (buildSessionKey then takes req.user.id)
KeyUniverse ==
    {StoredKey("userContext", u, CACHE_KEYS_userContext(u, a)) : u \in UserIds, a \in AccountIds}
      \cup {StoredKey("balances", u, CACHE_KEYS_balances(a, u)) : u \in UserIds, a \in AccountIds}
      \cup {StoredKey("userData", u, CACHE_KEYS_userData(u)) : u \in UserIds}
      \cup {StoredKey("lastUpdated", u, CACHE_KEYS_lastUpdated(u)) : u \in UserIds}
      \cup {StoredKey("session", u, SessionKeyText(u)) : u \in UserIds}

RECURSIVE SubsetsUpTo(_, _)
SubsetsUpTo(U, n) ==
    IF n = 0 THEN {{}}
    ELSE LET P == SubsetsUpTo(U, n - 1) IN P \cup {S \cup {x} : S \in P, x \in U}

\* the glob *part*: part occurs somewhere in text (ids hold no glob character)
Includes(text, part) ==
    \E i \in 1..(Len(text) - Len(part) + 1) : SubSeq(text, i, i + Len(part) - 1) = part

\* lines 234-235: redis.keys(`*${userId}*`)
KeysMatching(S, userId) == {k \in S : Includes(k.text, userId)}

InitKeys ==
    /\ keyStore \in SubsetsUpTo(KeyUniverse, MaxKeys)
    /\ keyCall \in {[NoKeyCall EXCEPT !.user = u, !.pc = "call"] : u \in UserIds}
    /\ RaceIdle
    /\ ChatIdle /\ SanIdle /\ RetryIdle /\ CacheIdle /\ PageIdle /\ TurnIdle /\ SessIdle
    /\ TruncIdle

\* invalidateUserCache lines 234-237 and 242: redis.keys answers; when it found
\* no key the call returns 0 without a redis.del
InvalidateUserKeys ==
    /\ keyCall.pc = "call"
    /\ LET keys == KeysMatching(keyStore, keyCall.user) IN
         keyCall' = [keyCall EXCEPT !.keys = keys, !.count = 0,
                                    !.pc = IF keys # {} THEN "del" ELSE "done"]
    /\ UNCHANGED <<keyStore, chatVars, sanVars, retryVars, cacheVars, pageVars, turnVars,
                   sessVars, truncVars, raceVars>>

\* lines 238-242: redis.del(...keys), and the number of keys found is returned
DeleteUserKeys ==
    /\ keyCall.pc = "del"
    /\ keyStore' = keyStore \ keyCall.keys
    /\ keyCall' = [keyCall EXCEPT !.count = Cardinality(keyCall.keys), !.pc = "done"]
    /\ UNCHANGED <<chatVars, sanVars, retryVars, cacheVars, pageVars, turnVars, sessVars,
                   truncVars, raceVars>>

\* lines 243-246: redis.keys or redis.del throws, the catch returns 0
InvalidateUserKeysFails ==
    /\ keyCall.pc \in {"call", "del"}
    /\ keyCall' = [keyCall EXCEPT !.count = 0, !.pc = "failed"]
    /\ UNCHANGED <<keyStore, chatVars, sanVars, retryVars, cacheVars, pageVars, turnVars,
                   sessVars, truncVars, raceVars>>

NextKeys == InvalidateUserKeys \/ DeleteUserKeys \/ InvalidateUserKeysFails

SpecKeys == InitKeys /\ [][NextKeys]_vars

(***************************************************************************)
(* context cache: operations                                                *)
(*                                                                         *)
(* gets holds one slot per caller.  A caller invokes an operation (the     *)
(* call takes a free slot), the call then makes its awaits one at a time,  *)
(* each an action on the store as it is at that moment, and when it        *)
(* returns or throws it is recorded in cur and its slot is free again.     *)
(* Time may pass between two awaits.  SpecCache has one caller, who awaits *)
(* each call before the next.                                              *)
(***************************************************************************)
OthersUnchanged == UNCHANGED <<chatVars, sanVars, retryVars, pageVars, turnVars,
                               sessVars, truncVars, keyVars>>

FreeSlot(i) == ~Busy(gets[i]) /\ \A j \in 1..(i - 1) : Busy(gets[j])

\* the call as it starts in slot i; the minute it began and whether another
\* call ran beside it are kept for the calls the observer records
NewCall(i, op, acc, F, observed) ==
    [CallOf(op, acc, F) EXCEPT
        !.observed = observed,
        !.begun = IF observed THEN now ELSE 0,
        !.since = IF acc \in DOMAIN invs THEN invs[acc] ELSE Never,
        !.overlapped = observed /\ \E k \in 1..Len(gets) : k # i /\ Busy(gets[k])]

\* a caller invokes the operation: nothing is awaited yet
Begin(i, op, acc, F, observed) ==
    /\ gets' = [j \in 1..Len(gets) |->
                  IF j = i THEN NewCall(i, op, acc, F, observed)
                  ELSE IF Busy(gets[j]) /\ gets[j].observed
                       THEN [gets[j] EXCEPT !.overlapped = TRUE]
                  ELSE gets[j]]
    /\ UNCHANGED <<now, rCtx, rBal, rUser, rLast, cur, lastGet, invs>>
    /\ OthersUnchanged

\* the call returned or threw: what the observer keeps of it.  lastGet is the
\* build time returned by the latest undisturbed getUserContext of the
\* account since the last invalidation
Completed(c) ==
    /\ cur' = IF c.observed THEN Call(c) ELSE cur
    /\ lastGet' =
         IF ~c.observed THEN lastGet
         ELSE IF c.op \in {"invalidateAccountCache", "invalidateUserCache"}
              THEN [a \in Accounts |-> Never]
         ELSE IF IsContextOp(c)
              THEN [lastGet EXCEPT ![c.acc] =
                      IF c.ok /\ c.F = NoFault THEN c.ctx.buildTime ELSE Never]
         ELSE lastGet
    /\ invs' = IF c.op = "invalidateAccountCache" /\ c.ok /\ c.acc \in DOMAIN invs
               THEN [invs EXCEPT ![c.acc] = now] ELSE invs

\* the call in slot i makes its next await
Advance(i) ==
    LET r == Await(gets[i], CacheStore) IN
      /\ Commit(r.st)
      /\ IF r.c.pc = "done"
         THEN gets' = [gets EXCEPT ![i] = IdleCall] /\ Completed(r.c)
         ELSE gets' = [gets EXCEPT ![i] = r.c] /\ UNCHANGED <<cur, lastGet, invs>>
      /\ UNCHANGED now
      /\ OthersUnchanged

\* lines 37 and 38
GetUserContextAwait ==
    \E i \in 1..Len(gets) : gets[i].pc \in GetUserContextAwaits /\ Advance(i)

\* lines 180, 187, 190 and 197
GetUserDataCachedAwait ==
    \E i \in 1..Len(gets) : gets[i].pc \in GetUserDataCachedAwaits /\ Advance(i)

\* line 97
BuildUserContextAwait ==
    \E i \in 1..Len(gets) : gets[i].pc \in BuildUserContextAwaits /\ Advance(i)

\* lines 208, 215, 218 and 225
GetBalancesCachedAwait ==
    \E i \in 1..Len(gets) : gets[i].pc \in GetBalancesCachedAwaits /\ Advance(i)

\* lines 162 and 165
CacheUserContextAwait ==
    \E i \in 1..Len(gets) : gets[i].pc \in CacheUserContextAwaits /\ Advance(i)

\* line 258
InvalidateAccountCacheAwait ==
    \E i \in 1..Len(gets) : gets[i].pc \in InvalidateAccountCacheAwaits /\ Advance(i)

\* lines 235 and 238
InvalidateUserCacheAwait ==
    \E i \in 1..Len(gets) : gets[i].pc \in InvalidateUserCacheAwaits /\ Advance(i)

InitCache ==
    /\ CacheStart /\ gets = <<IdleCall>> /\ invs = <<>>
    /\ ChatIdle /\ SanIdle /\ RetryIdle /\ PageIdle
    /\ TurnIdle /\ SessIdle /\ TruncIdle
    /\ KeyIdle

\* a caller invokes getUserContext(userId, token, accountId)
CallGetUserContext ==
    \E acc \in Accounts, i \in 1..Len(gets) :
        FreeSlot(i) /\ Begin(i, "getUserContext", acc, NoFault, TRUE)

\* a caller invokes warmUpCache (lines 268-281): it awaits getUserContext,
\* discards the payload and returns true unless getUserContext throws
WarmUpCache ==
    \E acc \in Accounts, i \in 1..Len(gets) :
        FreeSlot(i) /\ Begin(i, "warmUpCache", acc, NoFault, TRUE)

CallGetUserDataCached ==
    \E i \in 1..Len(gets) : FreeSlot(i) /\ Begin(i, "getUserDataCached", "", NoFault, TRUE)

CallGetBalancesCached ==
    \E acc \in Accounts, i \in 1..Len(gets) :
        FreeSlot(i) /\ Begin(i, "getBalancesCached", acc, NoFault, TRUE)

\* a caller invokes invalidateAccountCache(userId, accountId), its redis.del
\* succeeding or not
InvalidateAccountCache ==
    \E acc \in Accounts, F \in {NoFault, Outage}, i \in 1..Len(gets) :
        FreeSlot(i) /\ Begin(i, "invalidateAccountCache", acc, F, TRUE)

\* a caller invokes invalidateUserCache(userId), the store answering or not
InvalidateUserCache ==
    \E F \in {NoFault, Outage}, i \in 1..Len(gets) :
        FreeSlot(i) /\ Begin(i, "invalidateUserCache", "", F, TRUE)

\* time passes
TimePasses ==
    /\ now + TickMinutes <= MaxClock
    /\ now' = now + TickMinutes
    /\ UNCHANGED <<rCtx, rBal, rUser, rLast, cur, lastGet, chatVars, sanVars, retryVars, pageVars, turnVars,
                   sessVars, truncVars, keyVars, raceVars>>

\* time passes between two calls: a call of this caller returns within the
\* minute it began
Tick == (\A i \in 1..Len(gets) : ~Busy(gets[i])) /\ TimePasses

NextCache ==
    \/ CallGetUserContext \/ CallGetUserDataCached \/ CallGetBalancesCached
    \/ InvalidateAccountCache \/ InvalidateUserCache \/ WarmUpCache
    \/ GetUserContextAwait \/ GetUserDataCachedAwait \/ BuildUserContextAwait
    \/ GetBalancesCachedAwait \/ CacheUserContextAwait
    \/ InvalidateAccountCacheAwait \/ InvalidateUserCacheAwait
    \/ Tick

SpecCache == InitCache /\ [][NextCache]_vars

(***************************************************************************)
(* context cache under faults: one call meets a fault of the store or of a *)
(* provider, on any store that earlier undisturbed calls and the passing   *)
(* of time can produce.  The earlier calls only leave their effect on the  *)
(* store; the call under fault is recorded in cur.                         *)
(***************************************************************************)
Undisturbed == cur = NoCall

EarlierOperation ==
    /\ Undisturbed
    /\ \E acc \in Accounts, i \in 1..Len(gets),
          op \in {"getUserContext", "getUserDataCached", "getBalancesCached",
                  "invalidateAccountCache"} :
         FreeSlot(i) /\ Begin(i, op, acc, NoFault, FALSE)

EarlierTick == Undisturbed /\ Tick

GetUserContextUnderFault ==
    /\ Undisturbed
    /\ \E acc \in Accounts, F \in Faults \ {NoFault}, i \in 1..Len(gets) :
         FreeSlot(i) /\ Begin(i, "getUserContext", acc, F, TRUE)

WarmUpCacheUnderFault ==
    /\ Undisturbed
    /\ \E acc \in Accounts, F \in Faults \ {NoFault}, i \in 1..Len(gets) :
         FreeSlot(i) /\ Begin(i, "warmUpCache", acc, F, TRUE)

GetUserDataCachedUnderFault ==
    /\ Undisturbed
    /\ \E F \in Faults \ {NoFault}, i \in 1..Len(gets) :
         FreeSlot(i) /\ Begin(i, "getUserDataCached", "", F, TRUE)

GetBalancesCachedUnderFault ==
    /\ Undisturbed
    /\ \E acc \in Accounts, F \in Faults \ {NoFault}, i \in 1..Len(gets) :
         FreeSlot(i) /\ Begin(i, "getBalancesCached", acc, F, TRUE)

NextCacheFaults ==
    \/ EarlierOperation \/ EarlierTick
    \/ GetUserContextUnderFault \/ WarmUpCacheUnderFault
    \/ GetUserDataCachedUnderFault \/ GetBalancesCachedUnderFault
    \/ GetUserContextAwait \/ GetUserDataCachedAwait \/ BuildUserContextAwait
    \/ GetBalancesCachedAwait \/ CacheUserContextAwait
    \/ InvalidateAccountCacheAwait

SpecCacheFaults == InitCache /\ [][NextCacheFaults]_vars

(***************************************************************************)
(* context cache: two callers.  getUserContext calls run beside each other *)
(* and beside invalidateAccountCache calls for one (user, account), await  *)
(* by await, and time passes at any moment; invs keeps, for that account,  *)
(* the minute its latest invalidation completed.  The store and the        *)
(* providers work.                                                         *)
(***************************************************************************)
RaceAccount == "acct1"

\* a caller invokes getUserContext
StartGet ==
    \E i \in 1..Len(gets) : FreeSlot(i) /\ Begin(i, "getUserContext", RaceAccount, NoFault, FALSE)

\* a caller invokes invalidateAccountCache(userId, accountId)
InvalidateBeside ==
    \E i \in 1..Len(gets) :
        FreeSlot(i) /\ Begin(i, "invalidateAccountCache", RaceAccount, NoFault, FALSE)

\* a caller invokes getUserDataCached or getBalancesCached
FetchBeside ==
    \E op \in {"getUserDataCached", "getBalancesCached"}, i \in 1..Len(gets) :
        FreeSlot(i) /\ Begin(i, op, RaceAccount, NoFault, FALSE)

\* a caller invokes invalidateUserCache(userId)
InvalidateUserBeside ==
    \E i \in 1..Len(gets) :
        FreeSlot(i) /\ Begin(i, "invalidateUserCache", RaceAccount, NoFault, FALSE)

InitCacheRace ==
    /\ CacheStart /\ gets = <<IdleCall, IdleCall>> /\ invs = [a \in {RaceAccount} |-> Never]
    /\ KeyIdle
    /\ ChatIdle /\ SanIdle /\ RetryIdle /\ PageIdle /\ TurnIdle /\ SessIdle /\ TruncIdle

NextCacheRace ==
    \/ StartGet \/ InvalidateBeside
    \/ GetUserContextAwait \/ GetUserDataCachedAwait \/ BuildUserContextAwait
    \/ GetBalancesCachedAwait \/ CacheUserContextAwait \/ InvalidateAccountCacheAwait
    \/ TimePasses

SpecCacheRace == InitCacheRace /\ [][NextCacheRace]_vars

(***************************************************************************)
(* context cache: two callers and every operation of the service, await by *)
(* await, within one minute.                                               *)
(***************************************************************************)
NextCacheBeside ==
    \/ StartGet \/ InvalidateBeside \/ FetchBeside \/ InvalidateUserBeside
    \/ GetUserContextAwait \/ GetUserDataCachedAwait \/ BuildUserContextAwait
    \/ GetBalancesCachedAwait \/ CacheUserContextAwait \/ InvalidateAccountCacheAwait
    \/ InvalidateUserCacheAwait

SpecCacheBeside == InitCacheRace /\ [][NextCacheBeside]_vars

(***************************************************************************)
(* paginated tools: operations                                              *)
(***************************************************************************)
InitPage ==
    /\ pgIn \in PageInputs /\ pgOut = NoPageResult /\ pgPc = "call"
    /\ ChatIdle /\ SanIdle /\ RetryIdle /\ CacheIdle
    /\ TurnIdle /\ SessIdle /\ TruncIdle
    /\ KeyIdle /\ RaceIdle

PageDone ==
    /\ pgPc' = "done"
    /\ UNCHANGED <<pgIn, chatVars, sanVars, retryVars, cacheVars, turnVars, sessVars,
                   truncVars, keyVars, raceVars>>

\* functionMap.js lines 433-466
CallGetUserAccounts ==
    /\ pgPc = "call" /\ pgIn.tool = "getUserAccounts"
    /\ PagedTool(pgIn, getAccountsByUserIdCount(pgIn.db, pgIn.ctx.userId),
                 getAccountsByUserIdCount(pgIn.db, pgIn.ctx.userId),
                 SMART_LIMITS_accounts, pgOut')
    /\ PageDone

\* functionMap.js lines 475-530
CallGetUserTransactions ==
    /\ pgPc = "call" /\ pgIn.tool = "getUserTransactions"
    /\ IF AccountOf(pgIn) = ""
       THEN pgOut' = [NoPageResult EXCEPT !.message = "accountRequired",
                                          !.error = "accountRequired"]
       ELSE PagedTool(pgIn,
                getTransactionsByUserAndAccountCount(pgIn.db, AccountOf(pgIn), pgIn.args),
                getTransactionSummary(pgIn.db, AccountOf(pgIn), FallbackOpts(pgIn.args)),
                SMART_LIMITS_transactions, pgOut')
    /\ PageDone

\* functionMap.js lines 532-566
CallGetRecurringForecasts ==
    /\ pgPc = "call" /\ pgIn.tool = "getRecurringForecasts"
    /\ PagedTool(pgIn, getRecurringForecastsByAccountCount(pgIn.db, AccountOf(pgIn)),
                 getRecurringForecastsByAccountCount(pgIn.db, AccountOf(pgIn)),
                 SMART_LIMITS_forecasts, pgOut')
    /\ PageDone

\* functionMap.js lines 568-605; forecastType takes its default 'F'
CallGetUpcomingTransactions ==
    /\ pgPc = "call" /\ pgIn.tool = "getUpcomingTransactions"
    /\ PagedTool(pgIn,
           getUpcomingByAccountAndRangeCount(pgIn.db, AccountOf(pgIn), pgIn.args.startDate,
                                             pgIn.args.endDate, "F"),
           getUpcomingByAccountAndRangeCount(pgIn.db, AccountOf(pgIn), pgIn.args.startDate,
                                             pgIn.args.endDate, "F"),
           SMART_LIMITS_upcoming, pgOut')
    /\ PageDone

NextPage ==
    \/ CallGetUserAccounts \/ CallGetUserTransactions
    \/ CallGetRecurringForecasts \/ CallGetUpcomingTransactions

SpecPage == InitPage /\ [][NextPage]_vars

(***************************************************************************)
(* the tool content executeToolCalls records for one tool result            *)
(***************************************************************************)
\* serialized sizes of string and array results, around the ceiling
ScalarSizes == {10, ToolContentLimit, ToolContentLimit + 1, 50000}
EssentialLens == {0, 200}
\* a field that is missing, an empty array, and arrays below and above the
\* numbers of items kept
TxCounts == {Absent, 0, 5, 25}
\* how many items the four transaction fields of a result hold
TxLists == {<<cf, plaid, up, rec>> : cf \in TxCounts, plaid \in TxCounts,
                                      up \in {Absent, 25}, rec \in {Absent, 25}}
TxItemLens == {120, 1200}
BalanceCounts == {Absent, 0, 40}
\* no categories, categories: null, categories: [] and a long list
Categories == {<<0, FALSE>>, <<4, FALSE>>, <<2, TRUE>>, <<12000, TRUE>>}
OtherLens == {0, 9900, 20000}
ToolResults ==
    {ScalarResult("null", 2)}
      \cup {ScalarResult(t, n) : t \in {"string", "array"}, n \in ScalarSizes}
      \cup {ObjectResult(e, k, l, b, c[1], c[2], o) :
              e \in EssentialLens, k \in TxLists, l \in TxItemLens, b \in BalanceCounts,
              c \in Categories, o \in OtherLens}

InitTruncate ==
    /\ trIn \in ToolResults /\ trOut = NoToolContent /\ trPc = "call"
    /\ ChatIdle /\ SanIdle /\ RetryIdle /\ CacheIdle /\ PageIdle /\ TurnIdle /\ SessIdle
    /\ KeyIdle /\ RaceIdle

\* executeToolCalls lines 406-416
RecordToolContent ==
    /\ trPc = "call"
    /\ trOut' = RecordedContent(trIn)
    /\ trPc' = "done"
    /\ UNCHANGED <<trIn, chatVars, sanVars, retryVars, cacheVars, pageVars, turnVars, sessVars,
                   keyVars, raceVars>>

NextTruncate == RecordToolContent

SpecTruncate == InitTruncate /\ [][NextTruncate]_vars

(***************************************************************************)
(* Properties                                                               *)
(***************************************************************************)

\* C1: the output of sanitizeMessageArray holds no orphan tool message: every
\* tool message of the input whose tool_call_id is requested by no assistant
\* message before it is absent from the output, and the output itself has none.
C1_OrphansRemoved ==
    sanPc \in {"once", "twice"} =>
        /\ \A i \in 1..Len(sanIn) : IsOrphan(sanIn, i) => sanIn[i] \notin Range(sanOut[1])
        /\ ~HasOrphan(sanOut[1])

C1_Witness ==
    /\ sanPc = "once"
    /\ \E i \in 1..Len(sanIn) : IsOrphan(sanIn, i)
    /\ \E j \in 1..Len(sanOut[1]) : sanOut[1][j].role = "tool"

\* C2: no request of a chat turn (first, fallback, final) carries an orphan
\* tool message, whatever the stored history.
C2_NoOrphanSent == \A i \in 1..Len(sent) : ~HasOrphan(sent[i].messages)

\* C3: every request of a chat turn carries the system message and the new
\* user message.
C3_PinnedMessagesSent ==
    \A i \in 1..Len(sent) :
        /\ SystemMessage \in Range(sent[i].messages)
        /\ UserMessage(message) \in Range(sent[i].messages)

\* C4: when the eviction loop is over, at most maxAttempts attempts were made,
\* and the list fits the budget or the attempts are exhausted; the system
\* message and the new user message are in place.
C4_BudgetConvergence ==
    pc = "first" =>
        /\ attempts <= maxAttempts
        /\ (JsonSize(messages) <= RequestSizeLimit \/ attempts = maxAttempts)
        /\ messages[1] = SystemMessage
        /\ Last(messages) = UserMessage(message)

\* C5: a list still over the budget when the eviction loop ends is not sent
\* with the context message at its full length: its content is truncated first.
C5_ContextForceTruncated ==
    \A i \in 1..Len(sent) :
        (sent[i].kind = "first" /\ JsonSize(sent[i].messages) > RequestSizeLimit) =>
            \A j \in 1..Len(sent[i].messages) :
                sent[i].messages[j].content.id = <<"context", 0>> =>
                    sent[i].messages[j].content.len < ContextLen

\* the list without its oldest non-system history message
OldestEvictable(ms) ==
    {i \in 2..(Len(ms) - 1) : IsHistoryMessage(ms[i]) /\ ms[i].role # "system"}
WithoutOldest(ms) ==
    IF OldestEvictable(ms) = {} THEN ms
    ELSE LET k == CHOOSE i \in OldestEvictable(ms) : \A j \in OldestEvictable(ms) : i <= j
         IN  SubSeq(ms, 1, k - 1) \o SubSeq(ms, k + 1, Len(ms))

\* C6: one iteration of the eviction loop removes exactly the oldest non-system
\* history message from the outbound list and leaves the rest in place.
C6_EvictsOneOldest ==
    [][(pc = "evict" /\ history' # history) => messages' = WithoutOldest(messages)]_vars

\* C7: when the tool loop is over there is one entry per requested call, in
\* request order; a call whose tool throws, or whose name is not in the
\* registry, has an error entry, and every other call has its result.
C7_OneEntryPerCall ==
    /\ Len(toolResults) <= Len(toolCalls)
    /\ \A i \in 1..Len(toolResults) :
        /\ toolResults[i].name = toolCalls[i].name
        /\ (toolCalls[i].name \notin Registry \/ RegisteredTool(toolCalls[i]).threw)
              => (~toolResults[i].hasResult /\ toolResults[i].error # "")
        /\ (toolCalls[i].name \in Registry /\ ~RegisteredTool(toolCalls[i]).threw)
              => (toolResults[i].hasResult /\ toolResults[i].error = "")

Phase(p) ==
    CASE p \in {"load", "build", "evict"} -> "Assembling"
      [] p \in {"first", "fallback"}      -> "AwaitingCompletion"
      [] p = "tools"                      -> "ExecutingTools"
      [] p = "final"                      -> "AwaitingFinalCompletion"
      [] OTHER                            -> "Done"

PhaseEdges ==
    {<<"Assembling", "AwaitingCompletion">>,
     <<"AwaitingCompletion", "Done">>,
     <<"AwaitingCompletion", "ExecutingTools">>,
     <<"ExecutingTools", "AwaitingFinalCompletion">>,
     <<"AwaitingFinalCompletion", "Done">>}

\* C8: a chat turn moves AwaitingCompletion -> Done or AwaitingCompletion ->
\* ExecutingTools -> AwaitingFinalCompletion -> Done; tool calls are accepted
\* once per turn, tools run only before any tool_choice none request, and every
\* request issued after tool execution has tool_choice none.
C8_OneToolRound ==
    [][/\ (Phase(pc') = Phase(pc) \/ <<Phase(pc), Phase(pc')>> \in PhaseEdges)
       /\ (toolCalls' # toolCalls => (pc = "first" /\ toolCalls = <<>>))
       /\ (toolResults' # toolResults =>
             (pc = "tools" /\ \A i \in 1..Len(sent) : sent[i].tool_choice = "auto"))
       /\ ((sent' # sent /\ toolCalls # <<>>) => Last(sent').tool_choice = "none")]_vars

C8_Witness ==
    /\ pc = "done"
    /\ Len(sent) = 2 /\ sent[2].kind = "final"
    /\ result.raw.tool_calls # <<>>
    /\ Len(toolResults) = Len(toolCalls)

\* C9: a failed final request is the last request of the turn and its failure
\* is not propagated: the answer returned is the 'Action Completed' text that
\* carries one summary line per tool result, and the turn goes on to save and
\* answer 200 with that answer.
C9_FinalFailureSynthesized ==
    \A i \in 1..Len(sent) :
        (sent[i].kind = "final" /\ sent[i].outcome = "failed") =>
            /\ i = Len(sent)
            /\ pc \in {"save", "done"}
            /\ ~result.error
            /\ result.content.id = <<"synth", "Action Completed", Len(toolResults)>>
            /\ result.content.len =
                  SynthesizedBaseLen + JoinedLen(toolResults, FoundLen, 1)
            /\ pc = "done" => (response.status = 200 /\ response.body = result.content)

\* C10: against an upstream that answers 429 to every attempt, one call makes
\* MAX_RETRIES + 1 attempts and then throws the 429 error.
C10_RetryBound429 ==
    (Len(httpLog) > 0 /\ \A i \in 1..Len(httpLog) : httpLog[i] = 429) =>
        /\ Len(httpLog) <= MAX_RETRIES + 1
        /\ aoaiPc # "returned"
        /\ (aoaiPc = "thrown" <=> Len(httpLog) = MAX_RETRIES + 1)
        /\ aoaiPc = "thrown" => thrown = 429

C10_Witness ==
    /\ aoaiPc = "thrown" /\ thrown = 429
    /\ Len(httpLog) = MAX_RETRIES + 1
    /\ \A i \in 1..Len(httpLog) : httpLog[i] = 429

\* C11: whatever mix of 429, 5xx and other outcomes the upstream gives, one
\* call makes at most MAX_RETRIES + 1 attempts; the two retry paths share one
\* counter, which counts every retried attempt (and every sleep) once.
C11_SharedRetryCounter ==
    aoaiPc # "idle" =>
        /\ Len(httpLog) <= MAX_RETRIES + 1
        /\ retryCount = Len(delays)
        /\ retryCount = Len(httpLog) - (IF aoaiPc = "call" THEN 0 ELSE 1)
        /\ \A i \in 1..retryCount : httpLog[i] = 429 \/ httpLog[i] >= 500

C11_Witness ==
    /\ aoaiPc = "thrown"
    /\ Len(httpLog) = MAX_RETRIES + 1
    /\ \E i, j \in 1..MAX_RETRIES : httpLog[i] = 429 /\ httpLog[j] >= 500

\* C12: a 5xx response met at retry count 0, 1, 2 is retried after 2000, 4000,
\* 8000 ms; against an upstream that answers 5xx to every attempt the call
\* stops after MAX_RETRIES + 1 attempts (the ceiling of the 429 path) and
\* throws the server error.
C12_ServerErrorBackoff ==
    /\ \A i \in 1..Len(delays) :
         httpLog[i] >= 500 =>
            delays[i] = (CASE i = 1 -> 2000 [] i = 2 -> 4000 [] i = 3 -> 8000
                           [] OTHER -> 0)
    /\ (Len(httpLog) > 0 /\ \A i \in 1..Len(httpLog) : httpLog[i] >= 500) =>
         /\ Len(httpLog) <= 4
         /\ aoaiPc # "returned"
         /\ (aoaiPc = "thrown" <=> Len(httpLog) = 4)
         /\ aoaiPc = "thrown" => thrown >= 500 /\ thrown = Last(httpLog)

C12_Witness ==
    /\ aoaiPc = "thrown" /\ thrown >= 500
    /\ delays = <<2000, 4000, 8000>>
    /\ \A i \in 1..Len(httpLog) : httpLog[i] >= 500

\* C13: a 4xx response other than 429 ends the call at once: it is the last
\* attempt, the error thrown carries its status, and no sleep follows it; when
\* it answers the first attempt, exactly one attempt is made and no delay.
C13_ClientErrorFailsFast ==
    \A i \in 1..Len(httpLog) :
        (httpLog[i] >= 400 /\ httpLog[i] < 500 /\ httpLog[i] # 429) =>
            /\ i = Len(httpLog)
            /\ aoaiPc = "thrown" /\ thrown = httpLog[i]
            /\ Len(delays) = i - 1
            /\ i = 1 => (Len(httpLog) = 1 /\ delays = <<>> /\ retryCount = 0)

C13_Witness ==
    /\ aoaiPc = "thrown" /\ httpLog = <<400>> /\ delays = <<>>

\* C14: for one account, a getUserContext that follows an undisturbed one
\* with no invalidation in between returns the same build time and invokes no
\* provider while less than 30 minutes have passed since that build time, and
\* returns a later build time once 30 minutes or more have passed.
C14_FreshnessWindow ==
    (cur.op = "getUserContext" /\ cur.ok /\ ~cur.rfailed /\ ~cur.provFault
        /\ cur.prev # Never) =>
        /\ cur.at - cur.prev < 30 =>
              (cur.ctx.buildTime = cur.prev /\ cur.pcalls = <<>>)
        /\ cur.begun - cur.prev >= 30 => cur.ctx.buildTime > cur.prev

\* C15: a payload is returned flagged _cached only if the entry of that
\* (user, account) was built less than 30 minutes before the call; any other
\* payload returned was built during the call from the providers.
C15_CachedOnlyIfEntryFresh ==
    (cur.op = "getUserContext" /\ cur.ok) =>
        /\ cur.cached => cur.begun - cur.ctx.buildTime < 30
        /\ ~cur.cached => (cur.ctx.buildTime >= cur.begun /\ cur.pcalls # <<>>)

\* C16: the getUserContext that follows a completed
\* invalidateAccountCache of the same account serves nothing cached for the
\* account: the context is built during the call and the balances come from
\* the provider.
C16_InvalidatedNotServed ==
    (cur.op = "getUserContext" /\ cur.ok /\ ~cur.overlapped
        /\ cur.after \in {"invalidate", "failedInvalidate"}) =>
        /\ ~cur.cached /\ cur.ctx.buildTime >= cur.begun
        /\ ~cur.ctx.balCached /\ cur.ctx.balAt >= cur.begun
        /\ "getBalances" \in Range(cur.pcalls)

\* C17: with the cache store working, getUserContext never throws: when
\* building the context fails, the caller still receives a result.
C17_RebuildErrorContained ==
    (cur.op = "getUserContext" /\ ~cur.rfailed) => cur.ok

\* C18: when a redis call of the operation fails and the providers work,
\* getUserContext, getUserDataCached and getBalancesCached return without an
\* error, and what they return was obtained from the providers during the call.
C18_CacheUnavailableFallsBack ==
    (cur.op \in {"getUserContext", "getUserDataCached", "getBalancesCached"}
        /\ cur.rfailed /\ ~cur.provFault) =>
        /\ cur.ok /\ ~cur.cached
        /\ cur.pcalls # <<>>
        /\ cur.op = "getUserContext" => cur.ctx.buildTime >= cur.begun
        /\ cur.op = "getUserDataCached" =>
              (cur.val >= cur.begun /\ "getUserData" \in Range(cur.pcalls))
        /\ cur.op = "getBalancesCached" =>
              (cur.val >= cur.begun /\ "getBalances" \in Range(cur.pcalls))

C18_Witness ==
    /\ cur.op = "getUserContext" /\ cur.rfailed /\ ~cur.provFault /\ cur.ok
    /\ cur.writes = {}
    /\ rCtx[cur.acc].at # Never /\ rCtx[cur.acc].at < cur.at
    /\ "getUserData" \in Range(cur.pcalls) /\ "getBalances" \in Range(cur.pcalls)

\* C19: whenever warmUpCache returns true, the providers were invoked during
\* the call and the context key and the lastUpdated key were rewritten.
C19_WarmUpRebuilds ==
    (cur.op = "warmUpCache" /\ cur.ok) =>
        /\ cur.pcalls # <<>>
        /\ {"ctx", "last"} \subseteq cur.writes

\* the count query of each tool, applied to the filter parameters of its list query
DirectCount(in) ==
    CASE in.tool = "getUserAccounts" -> getAccountsByUserIdCount(in.db, in.ctx.userId)
      [] in.tool = "getUserTransactions" ->
            getTransactionsByUserAndAccountCount(in.db, AccountOf(in), in.args)
      [] in.tool = "getRecurringForecasts" ->
            getRecurringForecastsByAccountCount(in.db, AccountOf(in))
      [] in.tool = "getUpcomingTransactions" ->
            getUpcomingByAccountAndRangeCount(in.db, AccountOf(in), in.args.startDate,
                                              in.args.endDate, "F")

\* the list query was issued and failed with the resource-exhaustion error,
\* while the count queries answer
ListExhausted(in) ==
    /\ in.list = "sortMemory" /\ in.count = "ok" /\ in.recount = "ok"
    /\ in.tool = "getUserTransactions" => AccountOf(in) # ""

\* C20: when the list query of a paginated tool fails with the
\* resource-exhaustion error, the tool does not throw: it returns no rows, the
\* explanatory message, and a total equal to what the count query returns for
\* the filter parameters of the list query.
C20_PaginationFallback ==
    (pgPc = "done" /\ ListExhausted(pgIn)) =>
        /\ ~pgOut.threw
        /\ pgOut.nrows = 0
        /\ pgOut.message = "memoryLimit"
        /\ pgOut.total = DirectCount(pgIn)

C20_Witness ==
    /\ pgPc = "done" /\ ListExhausted(pgIn)
    /\ pgIn.tool = "getUserTransactions" /\ pgIn.args.startDate = 2
    /\ pgOut.total = 2 /\ Cardinality(pgIn.db.txs) > 2

\* the two messages a completed chat turn appends: the user's message and the
\* assistant message carrying the text returned to the caller
TurnPair(m, text) == <<Plain("user", m), Plain("assistant", text)>>

\* C21: when a chat turn saves, the stored session is the last MAX_MEMORY
\* messages of the sanitized history loaded at the start of the turn followed by
\* the new user message and the assistant reply, also when the turn evicted
\* messages for size.
C21_StoredIsWindowOfLoaded ==
    [][SaveAndRespond =>
         store' = SliceLast(sanitizeMessageArray(loaded)
                              \o TurnPair(message, response'.body), MAX_MEMORY)]_vars

\* C22: a chat turn that executed tools stores no tool-role message and no
\* message carrying tool calls or a tool payload: the stored session ends with
\* the user's message and the final assistant text, and everything before them
\* was in the loaded history.
C22_NoToolPayloadStored ==
    [][(SaveAndRespond /\ toolResults # <<>>) =>
         /\ \A i \in 1..Len(store') :
               /\ store'[i].role \in {"user", "assistant"}
               /\ store'[i].tool_call_id = "" /\ store'[i].tool_calls = <<>>
               /\ store'[i].content.id[1] # "payload"
         /\ Len(store') >= 2
         /\ SubSeq(store', Len(store') - 1, Len(store')) = TurnPair(message, response'.body)
         /\ response'.body.id[1] \in {"answer", "synth", "noResponse"}
         /\ \A i \in 1..(Len(store') - 2) : store'[i] \in Range(loaded)]_vars

C22_Witness ==
    /\ pc = "done" /\ response.status = 200
    /\ \E i \in 1..Len(toolResults) : toolResults[i].hasResult
    /\ Len(store) = Min(Len(loaded) + 2, MAX_MEMORY) /\ Len(loaded) > 0
    /\ SubSeq(store, Len(store) - 1, Len(store)) = TurnPair(message, response.body)

\* C23: a chat or summarize request during which only the session store
\* fails is answered 200 with the answer of the completion service; when the
\* load failed the handler went on with an empty history and sent no stored
\* message.
C23_StoreFailureDegrades ==
    \A i \in 1..Len(reqs) :
        (reqs[i].kind \in {"chat", "summarize"} /\ reqs[i].fault \in {"load", "save"}) =>
            /\ (reqs[i].fault = "load" /\ reqs[i].pc # "new") =>
                  /\ reqs[i].loaded = <<>>
                  /\ reqs[i].pc # "process" =>
                       Len(reqs[i].sent) = IF reqs[i].kind = "chat" THEN 3 ELSE 2
            /\ reqs[i].pc = "done" =>
                  /\ reqs[i].status = 200 /\ ~reqs[i].error
                  /\ reqs[i].answer = Answer(i)

C23_Witness ==
    /\ Len(reqs) >= 2
    /\ reqs[1].kind = "chat" /\ reqs[1].fault = "save" /\ reqs[1].status = 200
    /\ reqs[2].kind = "summarize" /\ reqs[2].fault = "load" /\ reqs[2].status = 200
    /\ Len(events) = 4 /\ ~events[2].ok /\ ~events[3].ok /\ events[4].ok
    /\ Len(sessions[<<"session", "s1">>]) = 2

\* position in the log of the store operation op of request i
OpAt(op, i) == CHOOSE k \in 1..Len(events) : events[k].op = op /\ events[k].by = i
\* requests i and j both read the session before either of them wrote it, and
\* j wrote last
RacedAndLost(i, j) ==
    /\ i # j
    /\ reqs[i].kind = "chat" /\ reqs[j].kind = "chat"
    /\ SessionIdOf(reqs[i]) = SessionIdOf(reqs[j])
    /\ reqs[i].fault = "none" /\ reqs[j].fault = "none"
    /\ reqs[i].pc = "done" /\ reqs[j].pc = "done"
    /\ OpAt("get", i) < OpAt("set", j) /\ OpAt("get", j) < OpAt("set", i)
    /\ OpAt("set", i) < OpAt("set", j)

\* C24: when two chat requests on one session both load before either saves,
\* both are answered 200 without error, and the stored history is the one the
\* last writer built from what it loaded: the other request's turn is not in it.
C24_LastWriterWins ==
    \A i, j \in 1..Len(reqs) :
        RacedAndLost(i, j) =>
            /\ reqs[i].status = 200 /\ ~reqs[i].error
            /\ reqs[j].status = 200 /\ ~reqs[j].error
            /\ sessions[<<"session", SessionIdOf(reqs[j])>>]
                 = SliceLast(sanitizeMessageArray(reqs[j].history)
                               \o TurnPair(ChatMessage(reqs[j], j), reqs[j].answer),
                             MAX_MEMORY)
            /\ \A m \in Range(TurnPair(ChatMessage(reqs[i], i), reqs[i].answer)) :
                  m \notin Range(sessions[<<"session", SessionIdOf(reqs[j])>>])

C24_Witness ==
    /\ RacedAndLost(1, 2)
    /\ reqs[1].body = "s1" /\ reqs[2].header = "s1" /\ reqs[2].body = ""
    /\ Len(sessions[<<"session", "s1">>]) = 6
    /\ Last(sessions[<<"session", "s1">>]) = Plain("assistant", Answer(2))

\* C25: sanitizeMessageArray applied to its own output returns that output
\* unchanged.
C25_SanitizeIdempotent == sanPc = "twice" => sanOut[2] = sanOut[1]

C25_Witness ==
    /\ sanPc = "twice"
    /\ Len(sanOut[1]) < Len(sanIn)
    /\ \E j \in 1..Len(sanOut[2]) : sanOut[2][j].role = "tool"

\* C26: a completion request that fails with HTTP 401 is the last request of
\* the chat turn, and the turn does not end in a 200 response.
C26_AuthErrorFatal ==
    \A i \in 1..Len(sent) :
        (sent[i].outcome = "failed" /\ sent[i].status = 401) =>
            /\ i = Len(sent)
            /\ pc = "done" => response.status # 200

\* C27: when the completion the turn's answer is read from has no usable choice,
\* the answer is the empty text, the turn goes on to save and respond, the
\* response is a 200 carrying the no-response text, and a successful save
\* appends the user's message and that text to the session.
C27_MalformedIsEmptyAnswer ==
    [][(pc = "save" /\ result.raw \in Malformed) =>
         /\ result.content = EmptyContent
         /\ pc' = "done"
         /\ response'.status = 200 /\ ~response'.error
         /\ response'.body = NoResponseText
         /\ SaveAndRespond =>
              /\ Len(store') >= 2
              /\ SubSeq(store', Len(store') - 1, Len(store'))
                   = TurnPair(message, NoResponseText)]_vars

C27_Witness ==
    /\ pc = "done" /\ result.raw \in Malformed /\ result.raw.content.id[1] = "noChoices"
    /\ response.status = 200 /\ response.body = NoResponseText
    /\ Len(store) >= 2 /\ Last(store) = Plain("assistant", NoResponseText)

\* the pair request i appended to its session
AppendedPair(i) ==
    <<IF reqs[i].kind = "chat" THEN Plain("user", ChatMessage(reqs[i], i))
      ELSE SummarizeStored(reqs[i], i),
      Plain("assistant", reqs[i].answer)>>
\* request j is the next request on the session of request i, which appended
\* its pair; j got the stored session from the store
NextOnSession(i, j) ==
    /\ i < j
    /\ reqs[i].kind \in {"chat", "summarize"} /\ reqs[j].kind \in {"chat", "summarize"}
    /\ SessionIdOf(reqs[i]) = SessionIdOf(reqs[j])
    /\ \A k \in (i + 1)..(j - 1) : RequestKey(reqs[k]) # RequestKey(reqs[i])
    /\ reqs[i].pc = "done" /\ reqs[i].status = 200 /\ reqs[i].fault # "save"
    /\ reqs[j].pc \in {"process", "save", "done"} /\ reqs[j].fault # "load"
\* the ceiling the specification gives the content of a history message
PerMessageCeiling(role) ==
    IF role = "system" THEN SYSTEM_PROMPT_MAX_LENGTH ELSE MAX_MESSAGE_LENGTH
\* message s is the stored message m as a request may send it: the same
\* message with its text whole (trimmed or not) when the text is within the
\* ceiling of its role, and cut to about that ceiling when it is longer
SentFormOf(m, s) ==
    /\ s.role = m.role /\ s.content.id = m.content.id
    /\ s.tool_call_id = m.tool_call_id /\ s.tool_calls = m.tool_calls
    /\ IF m.content.len - m.content.pad <= PerMessageCeiling(m.role)
       THEN s.content.len \in {m.content.len, m.content.len - m.content.pad}
       ELSE /\ s.content.len >= PerMessageCeiling(m.role) - 1
            /\ s.content.len <= PerMessageCeiling(m.role) + EllipsisLen

\* C28: chat and summarize requests with the same session id work on the same
\* stored session: the pair appended by one request ends the history the next
\* request of either kind loads, and both messages of the pair are in the list
\* that request sends, whole or cut to the per-message ceiling.
C28_PairCarriedToNextRequest ==
    \A i, j \in 1..Len(reqs) :
        NextOnSession(i, j) =>
            /\ Len(reqs[j].loaded) >= 2
            /\ SliceLast(reqs[j].loaded, 2) = AppendedPair(i)
            /\ reqs[j].sent # <<>> =>
                 \A k \in 1..2 :
                     \E n \in 1..Len(reqs[j].sent) :
                         SentFormOf(AppendedPair(i)[k], reqs[j].sent[n])

\* C29: the content recorded for a tool result that serializes to more than
\* the ceiling, be it an object, an array or a string, is no longer than the
\* ceiling and carries the _truncated marker and the original size.
C29_TruncatedAndAnnotated ==
    (trPc = "done" /\ trIn.size > ToolContentLimit) =>
        /\ trOut.len <= ToolContentLimit
        /\ trOut.truncated
        /\ trOut.originalSize = trIn.size

\* C30: whatever context fields the body carries, the step after the history
\* load builds the outbound list as one system message, the sanitized history,
\* the context as a user message, the new user message, and the handler goes
\* on towards the completion call.
C30_AssembledWithContext ==
    [][pc = "build" =>
         /\ pc' \in {"evict", "first"}
         /\ Len(messages') = Len(sanitizeMessageArray(history)) + 3
         /\ messages'[1].role = "system"
         /\ \A i \in 2..Len(messages') : messages'[i].role # "system"
         /\ \A i \in 1..Len(sanitizeMessageArray(history)) :
               messages'[i + 1].content.id = sanitizeMessageArray(history)[i].content.id
         /\ messages'[Len(messages') - 1].role = "user"
         /\ messages'[Len(messages') - 1].content.id[1] = "context"
         /\ Last(messages') = Plain("user", message)]_vars

\* the ceiling of a role, as the handler's constants name them
CeilingOf(role) == IF role = "system" THEN SYSTEM_PROMPT_MAX_LENGTH ELSE MAX_MESSAGE_LENGTH

\* C31: every history message in a request of the chat turn has a content no
\* longer than the ceiling of its role, and the ceiling of system messages is
\* larger than the ceiling of user and assistant turns.
C31_HistoryWithinRoleCeiling ==
    \A i \in 1..Len(sent) :
        \A k \in 1..Len(sent[i].messages) :
            IsHistoryMessage(sent[i].messages[k]) =>
                /\ sent[i].messages[k].content.len <= CeilingOf(sent[i].messages[k].role)
                /\ CeilingOf("system") > CeilingOf("user")

IsSummaryTurn(m) == m.role = "user" /\ m.content.id[1] = "summary"

\* C35: once executeToolCalls has run, the array it was given is the list of
\* the first request, element for element; the tool-summary user turn is in
\* no request but the final one, where it is the last message.
C35_OriginalMessagesUnchanged ==
    (toolCalls # <<>> /\ pc \in {"final", "save", "done"}) =>
        /\ messages = sent[1].messages
        /\ \A k \in 1..Len(messages) : ~IsSummaryTurn(messages[k])
        /\ \A i \in 1..Len(sent) :
              IF sent[i].kind = "final"
              THEN /\ IsSummaryTurn(Last(sent[i].messages))
                   /\ \A k \in 1..(Len(sent[i].messages) - 1) :
                         ~IsSummaryTurn(sent[i].messages[k])
              ELSE \A k \in 1..Len(sent[i].messages) : ~IsSummaryTurn(sent[i].messages[k])

C35_Witness ==
    /\ pc = "save" /\ Len(toolResults) = MaxToolCalls
    /\ Len(sent) = 2 /\ sent[2].kind = "final"
    /\ Len(sent[2].messages) = Len(messages) + 1
    /\ Last(sent[2].messages) = SummaryMessage(toolResults)

\* every completion request of the turn so far failed
AllAttemptsFailed == sent # <<>> /\ \A i \in 1..Len(sent) : sent[i].outcome = "failed"

\* C33: a chat turn whose completion requests all failed (the first one and
\* the fallback with tool_choice none) writes nothing to the stored session.
C33_FailedTurnLeavesStore ==
    [][(Len(sent) = 2 /\ AllAttemptsFailed) => store' = store]_vars

\* a completion request of the turn failed without an HTTP status
FailedWithoutStatus(i) == sent[i].outcome = "failed" /\ sent[i].status = NoStatus

\* C34: a chat turn in which a completion request failed without an HTTP
\* status (timeout, network error) is not failed by it: no error response is
\* sent, and the turn ends with a 200 response that carries a text.
C34_TimeoutDegrades ==
    (\E i \in 1..Len(sent) : FailedWithoutStatus(i)) =>
        /\ response.status \in {0, 200}
        /\ pc = "done" => (response.status = 200 /\ response.body.len > 0)

\* both completion requests timed out and the caller got the apology text
C34_Witness ==
    /\ pc = "done" /\ Len(sent) = 2
    /\ FailedWithoutStatus(1) /\ FailedWithoutStatus(2)
    /\ response.status = 200 /\ response.body = ErrorText

\* request i is a repairSession answered 200 in this step: after its get
\* when it has nothing to write, after its set when it has
RepairSucceeds(i) ==
    /\ reqs[i].kind = "repairSession" /\ reqs[i].pc \in {"new", "set"}
    /\ reqs'[i].pc = "done" /\ reqs'[i].status = 200

\* no other request changed the session of request i since i read it
UntouchedSinceGet(i) ==
    \A e \in 1..Len(events) :
        (events[e].by = i /\ events[e].op = "get") =>
            \A f \in (e + 1)..Len(events) :
                (events[f].key = events[e].key /\ events[f].by # i) => events[f].op = "get"

\* C36, as stated: a repairSession that succeeds leaves under the session key
\* the sanitized form of what was stored before it answered, which holds no
\* orphan tool message; when sanitizing removes nothing, the store is not
\* written: no set is issued, so the content and the expiry of the key stay
\* as they were.
C36_RepairStoresSanitized ==
    [][\A i \in 1..Len(reqs) :
          RepairSucceeds(i) =>
             LET key == <<"session", SessionIdOf(reqs[i])>> IN
             /\ sessions'[key] = sanitizeMessageArray(sessions[key])
             /\ ~HasOrphan(sessions'[key])
             /\ \A k \in SessionKeys \ {key} : sessions'[k] = sessions[k]
             /\ sanitizeMessageArray(sessions[key]) = sessions[key] =>
                  /\ sessions' = sessions
                  /\ \A e \in (Len(events) + 1)..Len(events') : events'[e].op = "get"]_vars

\* C36, amended: a repairSession that succeeds leaves under the session key
\* the sanitized form of the history it read (line 1598), which holds no
\* orphan tool message, and leaves the other keys alone; this is the sanitized
\* form of what was stored before when no other request wrote the session
\* between the read and the write.  When sanitizing removes nothing, the
\* handler answers after its read and issues no set, so it changes neither
\* the content nor the expiry of the key.
C36_RepairStoresSanitized_OfLoaded ==
    [][\A i \in 1..Len(reqs) :
          RepairSucceeds(i) =>
             LET key == <<"session", SessionIdOf(reqs[i])>>
                 read == reqs'[i].loaded
             IN
             /\ Len(sanitizeMessageArray(read)) # Len(read) =>
                  /\ sessions'[key] = sanitizeMessageArray(read)
                  /\ ~HasOrphan(sessions'[key])
             /\ \A k \in SessionKeys \ {key} : sessions'[k] = sessions[k]
             /\ UntouchedSinceGet(i) => sessions'[key] = sanitizeMessageArray(sessions[key])
             /\ sanitizeMessageArray(read) = read =>
                  /\ reqs[i].pc = "new"
                  /\ sessions' = sessions
                  /\ \A e \in 1..Len(events') :
                        events'[e].by = i => events'[e].op = "get"]_vars

\* a repair that removed an orphan while a chat request on the same session
\* loaded and saved between its read and its write: both are answered 200, the
\* store holds what the repair read, sanitized, and not the chat's turn
C36_Witness ==
    /\ Len(reqs) = 2 /\ reqs[1].kind = "repairSession" /\ reqs[2].kind = "chat"
    /\ reqs[1].pc = "done" /\ reqs[1].status = 200
    /\ reqs[2].pc = "done" /\ reqs[2].status = 200
    /\ HasOrphan(reqs[1].loaded)
    /\ Len(events) = 4
    /\ events[1].by = 1 /\ events[1].op = "get"
    /\ events[3].by = 2 /\ events[3].op = "set" /\ events[3].ok
    /\ events[4].by = 1 /\ events[4].op = "set" /\ events[4].ok
    /\ sessions[<<"session", "s1">>] = sanitizeMessageArray(reqs[1].loaded)
    /\ Len(sessions[<<"session", "s1">>]) = Len(reqs[1].loaded) - 1
    /\ \E k \in 1..Len(sessions[<<"session", "s1">>]) :
          sessions[<<"session", "s1">>][k].role = "tool"

\* C39: from an empty store, whatever chat, summarize, repair-session and
\* clear-history requests were served, every stored session holds at most
\* MAX_MEMORY messages, each of role user or assistant.
C39_StoredSessionsWellFormed ==
    \A key \in SessionKeys :
        /\ Len(sessions[key]) <= MAX_MEMORY
        /\ \A k \in 1..Len(sessions[key]) : sessions[key][k].role \in {"user", "assistant"}

\* six turns of both kinds and a repair were served, and the window is full
C39_Witness ==
    /\ Len(reqs) = MaxOps /\ \A i \in 1..Len(reqs) : reqs[i].pc = "done"
    /\ reqs[1].kind = "chat" /\ reqs[2].kind = "summarize"
    /\ reqs[MaxOps].kind = "repairSession"
    /\ Len(sessions[<<"session", "s1">>]) = MAX_MEMORY
    /\ sessions[<<"session", "s1">>][1].role = "user"
    /\ sessions[<<"session", "s1">>][1] # Plain("user", ChatMessage(reqs[1], 1))

\* a getUserContext call for the account on the store as it is, after its two
\* reads (lines 37-47): it has returned the cached payload, or it goes on to
\* build one
NextGet(acc) ==
    LET read1 == Await(CallOf("getUserContext", acc, NoFault), CacheStore)
        read2 == Await(read1.c, read1.st)
    IN  read2.c
\* the step in which an invalidateAccountCache call of account acc completes
InvalidationCompletes(acc) ==
    \E i \in 1..Len(gets) :
        /\ gets[i].op = "invalidateAccountCache" /\ gets[i].acc = acc
        /\ Busy(gets[i]) /\ ~Busy(gets'[i])

\* C38: invalidateAccountCache for one account leaves every other account of
\* the user as it was served: an account whose context was served from the
\* cache before the call is served the same cached payload, without a
\* rebuild, by the next getUserContext after it.
C38_OtherAccountsStillCached ==
    [][\A a \in Accounts :
          InvalidationCompletes(a) =>
              \A b \in Accounts \ {a} :
                  NextGet(b).cached =>
                      /\ NextGet(b)'.cached
                      /\ NextGet(b)'.ctx = NextGet(b).ctx]_vars

\* the cache keys made for user u
OwnCacheKeys(S, u) == {k \in S : k.purpose # "session" /\ k.user = u}

\* C32: invalidateUserCache(u) deletes cache keys of user u only: the keys of
\* other users and the session keys stay, and the count it returns is the
\* number of cache keys of u it deleted.
C32_OnlyOwnCacheKeysDeleted ==
    [][(keyCall.pc \in {"call", "del"} /\ keyCall'.pc \in {"done", "failed"}) =>
          /\ keyStore' \subseteq keyStore
          /\ (keyStore \ keyStore') \subseteq OwnCacheKeys(keyStore, keyCall.user)
          /\ keyCall'.count = Cardinality(OwnCacheKeys(keyStore, keyCall.user) \ keyStore')]_vars

\* C37: a getUserContext that started after an invalidateAccountCache of its
\* (user, account) had completed never returns, flagged as cached, a payload
\* built from provider reads made before that invalidation, however the
\* calls were interleaved.
C37_NoStalePayloadAfterInvalidation ==
    [][\A i \in 1..Len(gets) :
          (gets[i].op = "getUserContext" /\ Busy(gets[i]) /\ ~Busy(gets'[i])) =>
              LET returned == Await(gets[i], CacheStore).c IN
                (returned.ok /\ returned.cached /\ gets[i].since # Never) =>
                    ~(returned.ctx.buildTime < gets[i].since)]_vars

====
